---- MODULE Spec2Model ----
(***************************************************************************)
(* A model of the connection-resolution pipeline of network_monitor.py:    *)
(* the tiered geo resolver (GeoIPLookup) with its cache, rate limiter and  *)
(* persistent store, the static range table (SimpleGeoDatabase), and the   *)
(* life cycle of main().                                                   *)
(*                                                                         *)
(* Python str values are TLA+ strings; the character-level operations the  *)
(* code performs on them (in, startswith, split, int) are computed below.  *)
(***************************************************************************)
EXTENDS Integers, Sequences, FiniteSets, TLC

\* ------------------------------------------------------------------------
\* Python str operations used by the code
\* ------------------------------------------------------------------------

\* `sub in s`
str_in(sub, s) ==
    \E i \in 1..(Len(s) - Len(sub) + 1) : SubSeq(s, i, i + Len(sub) - 1) = sub

\* s.startswith(p)
startswith(s, p) ==
    Len(s) >= Len(p) /\ SubSeq(s, 1, Len(p)) = p

\* index of the first occurrence of sep in s at or after position i, 0 if none
RECURSIVE str_find(_, _, _)
str_find(s, sep, i) ==
    IF i + Len(sep) - 1 > Len(s) THEN 0
    ELSE IF SubSeq(s, i, i + Len(sep) - 1) = sep THEN i
    ELSE str_find(s, sep, i + 1)

\* s.split(sep): the list of the pieces of s between occurrences of sep
RECURSIVE split(_, _)
split(s, sep) ==
    LET k == str_find(s, sep, 1) IN
    IF k = 0 THEN <<s>>
    ELSE <<SubSeq(s, 1, k - 1)>> \o split(SubSeq(s, k + Len(sep), Len(s)), sep)

DigitValue ==
    [c \in {"0", "1", "2", "3", "4", "5", "6", "7", "8", "9"} |->
        CASE c = "0" -> 0 [] c = "1" -> 1 [] c = "2" -> 2 [] c = "3" -> 3
          [] c = "4" -> 4 [] c = "5" -> 5 [] c = "6" -> 6 [] c = "7" -> 7
          [] c = "8" -> 8 [] c = "9" -> 9]

\* whether int(x) succeeds: x is a non-empty run of decimal digits (the
\* signed, padded and underscored forms int() also takes are not among the
\* address texts used here); otherwise int(x) raises ValueError
is_int_literal(x) ==
    /\ Len(x) > 0
    /\ \A i \in 1..Len(x) : SubSeq(x, i, i) \in DOMAIN DigitValue

\* int(x) for a decimal literal
RECURSIVE int(_)
int(x) ==
    IF Len(x) = 0 THEN 0
    ELSE 10 * int(SubSeq(x, 1, Len(x) - 1)) + DigitValue[SubSeq(x, Len(x), Len(x))]

UpperOf ==
    "a" :> "A" @@ "b" :> "B" @@ "c" :> "C" @@ "d" :> "D" @@ "e" :> "E"
    @@ "f" :> "F" @@ "g" :> "G" @@ "h" :> "H" @@ "i" :> "I" @@ "j" :> "J"
    @@ "k" :> "K" @@ "l" :> "L" @@ "m" :> "M" @@ "n" :> "N" @@ "o" :> "O"
    @@ "p" :> "P" @@ "q" :> "Q" @@ "r" :> "R" @@ "s" :> "S" @@ "t" :> "T"
    @@ "u" :> "U" @@ "v" :> "V" @@ "w" :> "W" @@ "x" :> "X" @@ "y" :> "Y"
    @@ "z" :> "Z"

\* s.upper() on ASCII text
RECURSIVE upper(_)
upper(s) ==
    IF Len(s) = 0 THEN ""
    ELSE LET c == SubSeq(s, 1, 1) IN
         (IF c \in DOMAIN UpperOf THEN UpperOf[c] ELSE c) \o upper(SubSeq(s, 2, Len(s)))

\* s.strip(): blanks removed at both ends
RECURSIVE strip(_)
strip(s) ==
    IF Len(s) > 0 /\ SubSeq(s, 1, 1) = " " THEN strip(SubSeq(s, 2, Len(s)))
    ELSE IF Len(s) > 0 /\ SubSeq(s, Len(s), Len(s)) = " " THEN strip(SubSeq(s, 1, Len(s) - 1))
    ELSE s

\* d.get(k, default) on a dict (a function from keys to values)
dict_get(d, k, default) ==
    IF k \in DOMAIN d THEN d[k] ELSE default

\* ------------------------------------------------------------------------
\* SimpleGeoDatabase (simple_geo_db.py)
\* ------------------------------------------------------------------------

ip_ranges ==
    <<
      [start |-> "8.8.8.0", end |-> "8.8.8.255", country |-> "United States",
       city |-> "Mountain View", org |-> "Google LLC"],
      [start |-> "8.8.4.0", end |-> "8.8.4.255", country |-> "United States",
       city |-> "Mountain View", org |-> "Google LLC"],
      [start |-> "142.250.0.0", end |-> "142.251.255.255", country |-> "United States",
       city |-> "Mountain View", org |-> "Google LLC"],
      [start |-> "172.217.0.0", end |-> "172.217.255.255", country |-> "United States",
       city |-> "Mountain View", org |-> "Google LLC"],
      [start |-> "216.58.192.0", end |-> "216.58.223.255", country |-> "United States",
       city |-> "Mountain View", org |-> "Google LLC"],
      [start |-> "1.1.1.0", end |-> "1.1.1.255", country |-> "United States",
       city |-> "San Francisco", org |-> "Cloudflare Inc"],
      [start |-> "1.0.0.0", end |-> "1.0.0.255", country |-> "United States",
       city |-> "San Francisco", org |-> "Cloudflare Inc"],
      [start |-> "104.16.0.0", end |-> "104.31.255.255", country |-> "United States",
       city |-> "San Francisco", org |-> "Cloudflare Inc"],
      [start |-> "52.0.0.0", end |-> "52.255.255.255", country |-> "United States",
       city |-> "Seattle", org |-> "Amazon.com Inc"],
      [start |-> "54.0.0.0", end |-> "54.255.255.255", country |-> "United States",
       city |-> "Seattle", org |-> "Amazon.com Inc"],
      [start |-> "13.32.0.0", end |-> "13.35.255.255", country |-> "United States",
       city |-> "Seattle", org |-> "Amazon CloudFront"],
      [start |-> "13.64.0.0", end |-> "13.107.255.255", country |-> "United States",
       city |-> "Redmond", org |-> "Microsoft Corporation"],
      [start |-> "20.0.0.0", end |-> "20.255.255.255", country |-> "United States",
       city |-> "Redmond", org |-> "Microsoft Corporation"],
      [start |-> "40.0.0.0", end |-> "40.255.255.255", country |-> "United States",
       city |-> "Redmond", org |-> "Microsoft Corporation"],
      [start |-> "31.13.24.0", end |-> "31.13.127.255", country |-> "United States",
       city |-> "Menlo Park", org |-> "Meta Platforms Inc"],
      [start |-> "157.240.0.0", end |-> "157.240.255.255", country |-> "United States",
       city |-> "Menlo Park", org |-> "Meta Platforms Inc"],
      [start |-> "173.252.64.0", end |-> "173.252.127.255", country |-> "United States",
       city |-> "Menlo Park", org |-> "Meta Platforms Inc"],
      [start |-> "140.82.112.0", end |-> "140.82.127.255", country |-> "United States",
       city |-> "San Francisco", org |-> "GitHub Inc"],
      [start |-> "185.199.108.0", end |-> "185.199.111.255", country |-> "United States",
       city |-> "San Francisco", org |-> "GitHub Inc"],
      [start |-> "46.4.0.0", end |-> "46.4.255.255", country |-> "Germany",
       city |-> "Falkenstein", org |-> "Hetzner Online GmbH"],
      [start |-> "78.46.0.0", end |-> "78.47.255.255", country |-> "Germany",
       city |-> "Falkenstein", org |-> "Hetzner Online GmbH"],
      [start |-> "88.99.0.0", end |-> "88.99.255.255", country |-> "Germany",
       city |-> "Falkenstein", org |-> "Hetzner Online GmbH"],
      [start |-> "104.131.0.0", end |-> "104.131.255.255", country |-> "United States",
       city |-> "New York", org |-> "DigitalOcean LLC"],
      [start |-> "159.89.0.0", end |-> "159.89.255.255", country |-> "United States",
       city |-> "New York", org |-> "DigitalOcean LLC"],
      [start |-> "185.70.40.0", end |-> "185.70.43.255", country |-> "Netherlands",
       city |-> "Amsterdam", org |-> "DigitalOcean LLC"],
      [start |-> "51.68.0.0", end |-> "51.68.255.255", country |-> "France",
       city |-> "Roubaix", org |-> "OVH SAS"],
      [start |-> "54.36.0.0", end |-> "54.39.255.255", country |-> "France",
       city |-> "Roubaix", org |-> "OVH SAS"],
      [start |-> "45.33.0.0", end |-> "45.33.255.255", country |-> "United States",
       city |-> "Fremont", org |-> "Linode LLC"],
      [start |-> "50.116.0.0", end |-> "50.116.255.255", country |-> "United States",
       city |-> "Fremont", org |-> "Linode LLC"],
      [start |-> "208.67.222.0", end |-> "208.67.222.255", country |-> "United States",
       city |-> "San Francisco", org |-> "OpenDNS"],
      [start |-> "208.67.220.0", end |-> "208.67.220.255", country |-> "United States",
       city |-> "San Francisco", org |-> "OpenDNS"],
      [start |-> "9.9.9.0", end |-> "9.9.9.255", country |-> "United States",
       city |-> "Berkeley", org |-> "Quad9 DNS"],
      [start |-> "149.112.112.0", end |-> "149.112.112.255", country |-> "United States",
       city |-> "Berkeley", org |-> "Quad9 DNS"]
    >>

\* One octet of a dotted quad as ipaddress.IPv4Address accepts it: one to
\* three decimal digits, no leading zero, at most 255.
valid_octet(o) ==
    /\ is_int_literal(o)
    /\ Len(o) <= 3
    /\ (Len(o) > 1 => SubSeq(o, 1, 1) # "0")
    /\ int(o) <= 255

\* Whether ipaddress.IPv4Address(s) succeeds (it raises AddressValueError
\* otherwise).
is_ipv4(s) ==
    LET octets == split(s, ".") IN
    /\ Len(octets) = 4
    /\ \A i \in 1..4 : valid_octet(octets[i])

\* int(ipaddress.IPv4Address(s)).  The 32-bit value a*2^24 + b*2^16 + c*2^8 + d
\* is kept as its two 16-bit halves <<a*2^8 + b, c*2^8 + d>>; int_le compares
\* two such values as the integers they stand for.
ipv4_int(s) ==
    LET octets == split(s, ".") IN
    <<int(octets[1]) * 256 + int(octets[2]), int(octets[3]) * 256 + int(octets[4])>>

int_le(x, y) ==
    x[1] < y[1] \/ (x[1] = y[1] /\ x[2] <= y[2])

\* the loop of _load_data: start_int and end_int added to every row
RECURSIVE with_ints(_)
with_ints(rows) ==
    IF rows = <<>> THEN <<>>
    ELSE LET range_data == Head(rows) IN
         <<[start_int |-> ipv4_int(range_data.start),
            end_int |-> ipv4_int(range_data.end),
            city |-> range_data.city,
            country |-> range_data.country,
            org |-> range_data.org]>> \o with_ints(Tail(rows))

\* SimpleGeoDatabase._load_data: self.ip_ranges after loading
_load_data ==
    with_ints(ip_ranges)

\* A faulty scan that answers with the last row holding ip_int.
RECURSIVE last_match(_, _, _)
last_match(rows, ip_int, i) ==
    IF i > Len(rows) THEN 0
    ELSE LET k == last_match(rows, ip_int, i + 1) IN
         IF k # 0 THEN k
         ELSE IF int_le(rows[i].start_int, ip_int) /\ int_le(ip_int, rows[i].end_int)
         THEN i
         ELSE 0

\* first row at or after index i whose range holds ip_int, 0 if none
RECURSIVE first_match(_, _, _)
first_match(rows, ip_int, i) ==
    IF i > Len(rows) THEN 0
    ELSE IF int_le(rows[i].start_int, ip_int) /\ int_le(ip_int, rows[i].end_int) THEN i
    ELSE first_match(rows, ip_int, i + 1)

\* SimpleGeoDatabase.lookup on a database whose self.ip_ranges is rows.  An
\* AddressValueError of IPv4Address is caught and gives the unknown triple.
simple_db_lookup(rows, ip_address) ==
    IF ~is_ipv4(ip_address) THEN <<"", "Unknown", "">>
    ELSE LET k == first_match(rows, ipv4_int(ip_address), 1) IN
         IF k = 0 THEN <<"", "Unknown", "">>
         ELSE <<rows[k].city, rows[k].country, rows[k].org>>

\* SimpleGeoDatabase(): the object after __init__
SimpleGeoDatabase ==
    [ip_ranges |-> _load_data]

\* None
None == [none |-> TRUE]

\* ------------------------------------------------------------------------
\* NetworkConnection
\* ------------------------------------------------------------------------

\* NetworkConnection.foreign_ip for a record whose foreign_address is the
\* given text
foreign_ip(foreign_address) ==
    IF str_in(":", foreign_address)
    THEN IF startswith(foreign_address, "[")
         THEN LET inner == split(foreign_address, "]:")[1] IN
              SubSeq(inner, 2, Len(inner))
         ELSE split(foreign_address, ":")[1]
    ELSE foreign_address

\* ------------------------------------------------------------------------
\* GeoIPLookup: pure parts
\* ------------------------------------------------------------------------

country_codes ==
    "US" :> "United States" @@ "CA" :> "Canada" @@ "GB" :> "United Kingdom"
    @@ "DE" :> "Germany" @@ "FR" :> "France" @@ "IT" :> "Italy"
    @@ "ES" :> "Spain" @@ "NL" :> "Netherlands" @@ "BE" :> "Belgium"
    @@ "CH" :> "Switzerland" @@ "AT" :> "Austria" @@ "SE" :> "Sweden"
    @@ "NO" :> "Norway" @@ "DK" :> "Denmark" @@ "FI" :> "Finland"
    @@ "IE" :> "Ireland" @@ "PT" :> "Portugal" @@ "GR" :> "Greece"
    @@ "PL" :> "Poland" @@ "CZ" :> "Czech Republic" @@ "HU" :> "Hungary"
    @@ "RO" :> "Romania" @@ "BG" :> "Bulgaria" @@ "HR" :> "Croatia"
    @@ "SI" :> "Slovenia" @@ "SK" :> "Slovakia" @@ "LT" :> "Lithuania"
    @@ "LV" :> "Latvia" @@ "EE" :> "Estonia" @@ "RU" :> "Russia"
    @@ "UA" :> "Ukraine" @@ "BY" :> "Belarus" @@ "JP" :> "Japan"
    @@ "CN" :> "China" @@ "KR" :> "South Korea" @@ "IN" :> "India"
    @@ "AU" :> "Australia" @@ "NZ" :> "New Zealand" @@ "BR" :> "Brazil"
    @@ "MX" :> "Mexico" @@ "AR" :> "Argentina" @@ "CL" :> "Chile"
    @@ "CO" :> "Colombia" @@ "PE" :> "Peru" @@ "VE" :> "Venezuela"
    @@ "ZA" :> "South Africa" @@ "EG" :> "Egypt" @@ "NG" :> "Nigeria"
    @@ "KE" :> "Kenya" @@ "MA" :> "Morocco" @@ "TN" :> "Tunisia"
    @@ "IL" :> "Israel" @@ "TR" :> "Turkey" @@ "SA" :> "Saudi Arabia"
    @@ "AE" :> "United Arab Emirates" @@ "QA" :> "Qatar" @@ "KW" :> "Kuwait"
    @@ "SG" :> "Singapore" @@ "MY" :> "Malaysia" @@ "TH" :> "Thailand"
    @@ "VN" :> "Vietnam" @@ "PH" :> "Philippines" @@ "ID" :> "Indonesia"
    @@ "TW" :> "Taiwan" @@ "HK" :> "Hong Kong"

\* the addresses lookup answers with empty fields before anything else
is_placeholder(ip_address) ==
    ip_address = "" \/ ip_address \in {"0.0.0.0", "127.0.0.1", "::1", "*", "0.0.0.0:0"}

\* A faulty _is_private_ip that leaves out 172.16.0.0/12.
_is_private_ip_without_172(ip) ==
    IF str_in(":", ip)
    THEN startswith(ip, "::1") \/ startswith(ip, "fe80:") \/ startswith(ip, "fc00:")
    ELSE LET raw == split(ip, ".") IN
         IF \E i \in 1..Len(raw) : ~is_int_literal(raw[i]) THEN FALSE
         ELSE LET parts == [i \in 1..Len(raw) |-> int(raw[i])] IN
              /\ Len(parts) = 4
              /\ \/ parts[1] = 10
                 \/ parts[1] = 192 /\ parts[2] = 168
                 \/ parts[1] = 127

\* GeoIPLookup._is_private_ip.  A ValueError of int() is caught and gives False.
_is_private_ip(ip) ==
    IF str_in(":", ip)
    THEN startswith(ip, "::1") \/ startswith(ip, "fe80:") \/ startswith(ip, "fc00:")
    ELSE LET raw == split(ip, ".") IN
         IF \E i \in 1..Len(raw) : ~is_int_literal(raw[i]) THEN FALSE
         ELSE LET parts == [i \in 1..Len(raw) |-> int(raw[i])] IN
              /\ Len(parts) = 4
              /\ \/ parts[1] = 10
                 \/ parts[1] = 172 /\ 16 <= parts[2] /\ parts[2] <= 31
                 \/ parts[1] = 192 /\ parts[2] = 168
                 \/ parts[1] = 127

\* re.sub(r'^AS\d+\s+', '', s): a leading "AS", digits and blanks removed
strip_as_number(s) ==
    IF ~startswith(s, "AS") THEN s
    ELSE LET digits == {n \in 1..(Len(s) - 2) :
                            \A i \in 3..(2 + n) : SubSeq(s, i, i) \in DOMAIN DigitValue}
         IN  IF digits = {} THEN s
             ELSE LET d == CHOOSE n \in digits : \A m \in digits : m <= n
                      rest == SubSeq(s, 3 + d, Len(s))
                  IN  IF Len(rest) > 0 /\ SubSeq(rest, 1, 1) = " "
                      THEN LET blanks == {n \in 1..Len(rest) :
                                             \A i \in 1..n : SubSeq(rest, i, i) = " "}
                               b == CHOOSE n \in blanks : \A m \in blanks : m <= n
                           IN  SubSeq(rest, b + 1, Len(rest))
                      ELSE s

strip_prefix(s, prefix) ==
    IF startswith(s, prefix) THEN SubSeq(s, Len(prefix) + 1, Len(s)) ELSE s

\* GeoIPLookup._clean_asn
_clean_asn(asn_info) ==
    IF asn_info = "" THEN ""
    ELSE strip(strip_prefix(strip_prefix(strip_prefix(strip_as_number(asn_info),
                   "AS "), "ASN "), "Autonomous System "))

\* ------------------------------------------------------------------------
\* Bounds of the model and constants of the program
\* ------------------------------------------------------------------------

\* lookups made in one run of main
MaxCalls == 2
\* runs of main (processes started one after the other on the same cache file)
MaxRuns == 2
\* one-second steps of the wall clock within a week
MaxSeconds == 1
\* retention-window steps of the wall clock
MaxWeeks == 1

\* self.online_lookup_delay, in seconds
online_lookup_delay == 1
\* timedelta(days=7) in _load_cache
retention_days == 7
\* len(self.persistent_cache) % 10 in _cache_result
flush_every == 10

\* timedelta(days=n).total_seconds()
timedelta_days(n) == n * 24 * 60 * 60

\* ------------------------------------------------------------------------
\* The environment: what is installed and what the data sources answer
\* ------------------------------------------------------------------------

\* The remote addresses of the host's connections, one of two populations.
\* The public ones: 8.8.8.8, 185.70.41.130 and 104.16.1.1 are inside the
\* static table, 93.184.216.34 is outside it, 169.254.1.1 is a reserved
\* address no service has data for.
PublicAddresses ==
    {"8.8.8.8", "185.70.41.130", "104.16.1.1", "93.184.216.34", "169.254.1.1"}

\* The others: the placeholder, private and loopback texts of both families,
\* one public IPv6 address, "2606", which is what foreign_ip leaves of the
\* netstat column "2606:4700:4700::1111:443", and "::", which is what it
\* leaves of the column "[::]:0" of a listening socket on Windows.
OtherAddresses ==
    {"", "0.0.0.0", "127.0.0.1", "::1", "*",
     "10.0.0.1", "172.16.0.1", "172.31.255.254", "192.168.1.1", "127.0.0.2",
     "fe80::1", "fc00::1", "2606:4700:4700::1111", "2606", "::"}

\* the addresses of the runs that share a cache file: one inside the static
\* table, one outside it
StoreAddresses ==
    {"8.8.8.8", "93.184.216.34"}

\* reserved addresses: no database has a record for them and the services
\* have no location for them
Bogons == {"169.254.1.1", "::"}

\* a text the ipaddress module accepts as an address
is_ip_text(ip) ==
    is_ipv4(ip) \/ str_in(":", ip)

\* What the host has installed and how the tool is started: the requests
\* library (REQUESTS_AVAILABLE), --no-online not given (use_online), the
\* MaxMind databases (city_reader, asn_reader), simple_geo_db (simple_db).
Installations ==
    {[requests |-> TRUE, online |-> TRUE, maxmind |-> TRUE, builtin |-> TRUE],
     [requests |-> TRUE, online |-> TRUE, maxmind |-> FALSE, builtin |-> TRUE],
     [requests |-> TRUE, online |-> TRUE, maxmind |-> FALSE, builtin |-> FALSE],
     [requests |-> TRUE, online |-> FALSE, maxmind |-> TRUE, builtin |-> TRUE],
     [requests |-> FALSE, online |-> TRUE, maxmind |-> FALSE, builtin |-> TRUE]}

\* the installation of the runs that share a cache file
DefaultInstallation ==
    [requests |-> TRUE, online |-> TRUE, maxmind |-> FALSE, builtin |-> TRUE]

\* a dict with no key
EmptyDict == [k \in {} |-> ""]

\* GeoLite2-City.mmdb: address -> (city.name, country.name), None read as ""
\* The record of an anycast address names no country.
GeoLite2_City ==
    ("8.8.8.8" :> [city |-> "", country |-> "United States"])
    @@ ("185.70.41.130" :> [city |-> "Amsterdam", country |-> "Netherlands"])
    @@ ("104.16.1.1" :> [city |-> "", country |-> ""])
    @@ ("2606:4700:4700::1111" :> [city |-> "", country |-> "United States"])

\* GeoLite2-ASN.mmdb: address -> autonomous_system_organization
GeoLite2_ASN ==
    ("8.8.8.8" :> "GOOGLE")
    @@ ("104.16.1.1" :> "CLOUDFLARENET")
    @@ ("2606:4700:4700::1111" :> "CLOUDFLARENET")

\* city_reader.city(ip): the record, AddressNotFoundError when the database
\* has none, ValueError when the text is no address
CityResponse(ip_address) ==
    IF ~is_ip_text(ip_address)
    THEN [raised |-> "ValueError", city |-> "", country |-> ""]
    ELSE IF ip_address \in DOMAIN GeoLite2_City
    THEN [raised |-> "", city |-> GeoLite2_City[ip_address].city,
          country |-> GeoLite2_City[ip_address].country]
    ELSE [raised |-> "AddressNotFoundError", city |-> "", country |-> ""]

\* asn_reader.asn(ip), likewise
AsnResponse(ip_address) ==
    IF ~is_ip_text(ip_address)
    THEN [raised |-> "ValueError", org |-> ""]
    ELSE IF ip_address \in DOMAIN GeoLite2_ASN
    THEN [raised |-> "", org |-> GeoLite2_ASN[ip_address]]
    ELSE [raised |-> "AddressNotFoundError", org |-> ""]

\* requests.get on ip-api.com: an exception (timeout, no connection, a body
\* that is no JSON object), or a status code and the JSON object.  One
\* located record stands in for what the service knows of any address.
ApiResponses(ip_address) ==
    {[raised |-> TRUE, status_code |-> 0, data |-> EmptyDict],
     [raised |-> FALSE, status_code |-> 429, data |-> EmptyDict],
     [raised |-> FALSE, status_code |-> 200, data |-> [status |-> "fail"]]}
    \cup (IF ip_address \in Bogons \/ ~is_ip_text(ip_address) THEN {}
          ELSE {[raised |-> FALSE, status_code |-> 200,
                 data |-> [status |-> "success", city |-> "Berlin",
                           country |-> "Germany",
                           as |-> "AS3320 Deutsche Telekom AG",
                           org |-> "Deutsche Telekom AG"]]})

\* requests.get on ipinfo.io: a status code and the JSON object; a reserved
\* address is answered with a "bogon" object without city, country and org,
\* a text that is no address with an error status
InfoResponses(ip_address) ==
    {[raised |-> TRUE, status_code |-> 0, data |-> EmptyDict],
     [raised |-> FALSE, status_code |-> 429, data |-> EmptyDict]}
    \cup (IF ip_address \in Bogons
          THEN {[raised |-> FALSE, status_code |-> 200, data |-> [bogon |-> "true"]]}
          ELSE IF ~is_ip_text(ip_address) THEN {}
          ELSE {[raised |-> FALSE, status_code |-> 200,
                 data |-> [city |-> "Berlin", country |-> "DE",
                           org |-> "AS3320 Deutsche Telekom AG"]]})

\* outcome of writing the cache file: written, open() fails (file untouched),
\* or the write fails after open() truncated the file
SaveOutcomes == {"ok", "open_fails", "write_fails"}

\* outcome of reading the cache file
LoadOutcomes == {"ok", "read_fails"}

\* ------------------------------------------------------------------------
\* State
\* ------------------------------------------------------------------------

VARIABLES
    pc,                  \* where main() is: "start", "running", "exited"
    runs,                \* runs of main started so far
    clock,               \* datetime.now(), in seconds
    installation,        \* what this host has installed (see Installations)
    addresses,           \* the remote addresses this host's connections have
    REQUESTS_AVAILABLE,  \* module flag: the requests library was imported
    use_online,          \* GeoIPLookup.use_online
    city_reader,         \* GeoIPLookup.city_reader and asn_reader are open
    simple_db,           \* GeoIPLookup.simple_db: None or the database object
    persistent_cache,    \* GeoIPLookup.persistent_cache: ip -> entry
    online_cache,        \* GeoIPLookup.online_cache: ip -> (city, country, asn)
    last_online_lookup,  \* GeoIPLookup.last_online_lookup: ip -> time
    cache_file,          \* geo_cache.pkl on disk
    call,                \* what the last lookup call was given, did and returned
    written,             \* ip -> result of the call of this run that cached it
    last_request,        \* ip -> time of the last networked request of this run
    op,                  \* the last operation: its name, I/O outcome and time
    closed,              \* GeoIPLookup.close was called in this run
    probe,               \* the last call a test script made: function, input, output
    platform,            \* the host's operating system and the tools found on it
    nettools,            \* CrossPlatformNetworkTools: None or its os_type, available_tools
    enum,                \* what the last get_connections call was given, ran, read and returned
    cycle,               \* where get_netstat_connections is and what it has collected
    detector,            \* CountryDetector: None or its fields
    detect,              \* the last call on the detector: what it ran and returned
    monitor,             \* NetworkMonitor.local_country and where main is with the monitor
    peer                 \* a second process of the tool on this host: None or its memory

vars ==
    <<pc, runs, clock, installation, addresses, REQUESTS_AVAILABLE, use_online,
      city_reader, simple_db, persistent_cache, online_cache, last_online_lookup,
      cache_file, call, written, last_request, op, closed, probe, platform,
      nettools, enum, cycle, detector, detect, monitor, peer>>

\* the fields of the resolver object and the module flag it reads
resolver ==
    <<REQUESTS_AVAILABLE, use_online, city_reader, simple_db,
      persistent_cache, online_cache, last_online_lookup>>

\* the host: what it has installed, the addresses it talks to, and the
\* other process of the tool that runs on it
host ==
    <<installation, addresses, peer>>

\* what main's resolver never touches: the state of the test scripts and of
\* the connection enumerator
others ==
    <<probe, platform, nettools, enum, cycle, detector, detect, monitor>>

NoProbe ==
    [fn |-> "", input |-> "", output |-> <<>>]

\* An Optional[str]: None, or a str
NoStr == [none |-> TRUE, str |-> ""]
Str(s) == [none |-> FALSE, str |-> s]

\* main has not come to the monitor yet: local_country is None from
\* NetworkMonitor.__init__ on
NotStarted ==
    [at |-> "main", args_country |-> NoStr, local_country |-> NoStr,
     refresh_interval |-> 5, filter_listening |-> TRUE, cycles |-> 0,
     signals |-> 0, foreign |-> 0]

NoEnum ==
    [protocol |-> "", filter_listening |-> FALSE, invoked |-> <<>>,
     stdout |-> <<>>, connections |-> <<>>, raised |-> ""]

NoCycle ==
    [at |-> "idle", filter_listening |-> FALSE, tcp |-> NoEnum, udp |-> NoEnum,
     connections |-> <<>>, i |-> 0]

NoDetect ==
    [n |-> 0, op |-> "", returned |-> "", queries |-> <<>>, lookups |-> <<>>]

\* no monitor is built
NoMonitor ==
    /\ nettools = None
    /\ enum = NoEnum
    /\ cycle = NoCycle
    /\ detector = None
    /\ detect = NoDetect
    /\ monitor = NotStarted

\* no test script is running and no monitor exists
Idle ==
    /\ probe = NoProbe
    /\ platform = [os_type |-> "linux", tools |-> {}]
    /\ NoMonitor

\* d[k] = v on a dict
dict_put(d, k, v) ==
    [x \in DOMAIN d \cup {k} |-> IF x = k THEN v ELSE d[x]]

NoCall ==
    [n |-> 0, ip |-> "", result |-> <<"", "", "">>, raised |-> "", hit |-> "",
     trace |-> <<>>, requests |-> <<>>, limited |-> FALSE, wrote |-> FALSE]

\* ------------------------------------------------------------------------
\* GeoIPLookup: the cache file
\* ------------------------------------------------------------------------

\* A faulty _save_cache that keeps the entries another process has saved.
_save_cache_merging(cache, io) ==
    LET old == IF cache_file.kind = "pickle" THEN cache_file.cache
               ELSE [ip \in {} |-> <<>>]
    IN  [kind |-> "pickle",
         cache |-> [ip \in DOMAIN old \cup DOMAIN cache |->
                        IF ip \in DOMAIN cache THEN cache[ip] ELSE old[ip]],
         saved_at |-> clock]

\* GeoIPLookup._save_cache: the file after saving `cache`.  An exception is
\* logged and swallowed; open() failing leaves the file as it was, a write
\* failing after open() leaves a truncated file that no longer unpickles.
_save_cache(cache, io) ==
    CASE io = "ok" -> [kind |-> "pickle", cache |-> cache, saved_at |-> clock]
      [] io = "open_fails" -> cache_file
      [] OTHER -> [kind |-> "corrupt"]

\* A faulty filter that keeps every entry whatever its age.
unexpired_keeps_all(cache, now) ==
    cache

\* the dict comprehension of _load_cache: the entries newer than the cutoff
unexpired(cache, now) ==
    LET cutoff == now - timedelta_days(retention_days)
        kept == {ip \in DOMAIN cache : dict_get(cache[ip], "timestamp", now) > cutoff}
    IN  [ip \in kept |-> cache[ip]]

\* A faulty _load_cache that keeps what it has read when the load fails.
_load_cache_keeping_what_it_read(io) ==
    CASE cache_file.kind = "absent" -> [ip \in {} |-> <<>>]
      [] cache_file.kind = "corrupt" -> [ip \in {} |-> <<>>]
      [] io # "ok" -> cache_file.cache
      [] OTHER -> unexpired(cache_file.cache, clock)

\* GeoIPLookup._load_cache: persistent_cache after loading.  No file leaves
\* the empty dict of __init__; any exception empties it.
_load_cache(io) ==
    CASE cache_file.kind = "absent" -> [ip \in {} |-> <<>>]
      [] cache_file.kind = "corrupt" \/ io # "ok" -> [ip \in {} |-> <<>>]
      [] OTHER -> unexpired(cache_file.cache, clock)

\* A faulty test that makes every write flush.
flush_due_always(pcache) ==
    TRUE

\* `if len(self.persistent_cache) % 10 == 0` of _cache_result
flush_due(pcache) ==
    Cardinality(DOMAIN pcache) % flush_every = 0

\* A faulty _cache_result that stores the entry without its organization.
_cache_result_without_asn(ip_address, city, country, asn, io) ==
    LET result_data == [city |-> city, country |-> country, asn |-> "",
                        timestamp |-> clock]
        pcache == dict_put(persistent_cache, ip_address, result_data)
    IN  [ocache |-> dict_put(online_cache, ip_address, <<city, country, "">>),
         pcache |-> pcache,
         file |-> cache_file]

\* A faulty _cache_result that writes the runtime cache only.
_cache_result_runtime_only(ip_address, city, country, asn, io) ==
    [ocache |-> dict_put(online_cache, ip_address, <<city, country, asn>>),
     pcache |-> persistent_cache,
     file |-> cache_file]

\* GeoIPLookup._cache_result: both caches and the file afterwards
_cache_result(ip_address, city, country, asn, io) ==
    LET result_data == [city |-> city, country |-> country, asn |-> asn,
                        timestamp |-> clock]
        pcache == dict_put(persistent_cache, ip_address, result_data)
    IN  [ocache |-> dict_put(online_cache, ip_address, <<city, country, asn>>),
         pcache |-> pcache,
         file |-> IF flush_due(pcache) THEN _save_cache(pcache, io) ELSE cache_file]

\* ------------------------------------------------------------------------
\* GeoIPLookup: the tiers
\* ------------------------------------------------------------------------

\* a or b on str values
py_or(a, b) == IF a # "" THEN a ELSE b

\* The two queries of the MaxMind block: city_reader.city then
\* asn_reader.asn; the first exception ends the block.
maxmind_lookup(city_response, asn_response) ==
    IF city_response.raised # ""
    THEN [raised |-> city_response.raised, city |-> "", country |-> "", asn |-> ""]
    ELSE [raised |-> asn_response.raised, city |-> city_response.city,
          country |-> city_response.country, asn |-> asn_response.org]

\* the exception classes that derive from Exception
is_Exception(raised) ==
    raised \in {"Exception", "ValueError", "GeoIP2Error", "AddressNotFoundError"}

\* A faulty MaxMind block that lacks the `except Exception` clause.
maxmind_catches_geoip_only(raised) ==
    raised \in {"AddressNotFoundError", "GeoIP2Error"}

\* the except clauses of the MaxMind block: (AddressNotFoundError,
\* GeoIP2Error) and Exception
maxmind_catches(raised) ==
    raised \in {"AddressNotFoundError", "GeoIP2Error"} \/ is_Exception(raised)

\* `if country:` of the MaxMind block
maxmind_accepts(country) ==
    country # ""

\* A faulty built-in database block that never returns what it found.
simple_accepts_never(country) ==
    FALSE

\* `if country and country != "Unknown":` of the built-in database block
simple_accepts(country) ==
    country # "" /\ country # "Unknown"

\* `if result[1] != "Unknown":` of the online block
online_accepts(result) ==
    result[2] # "Unknown"

\* A faulty online block without the rate limiting check.
rate_limited_never(ip_address, now) ==
    FALSE

\* A faulty check that still holds a call back when the delay has just passed.
rate_limited_a_second_longer(ip_address, now) ==
    /\ ip_address \in DOMAIN last_online_lookup
    /\ now - last_online_lookup[ip_address] <= online_lookup_delay

\* the rate limiting check of the online block
rate_limited(ip_address, now) ==
    /\ ip_address \in DOMAIN last_online_lookup
    /\ now - last_online_lookup[ip_address] < online_lookup_delay

\* A faulty _online_lookup that asks both services before it looks at an
\* answer.
_online_lookup_asking_both(api, info) ==
    IF ~api.raised /\ api.status_code = 200 /\ dict_get(api.data, "status", "") = "success"
    THEN [result |-> <<dict_get(api.data, "city", ""),
                       dict_get(api.data, "country", ""),
                       _clean_asn(py_or(dict_get(api.data, "as", ""),
                                        dict_get(api.data, "org", "")))>>,
          requests |-> <<"ip-api.com", "ipinfo.io">>]
    ELSE [result |-> <<"", "Unknown", "">>,
          requests |-> <<"ip-api.com", "ipinfo.io">>]

\* GeoIPLookup._online_lookup: the result and the services it sent a request to
_online_lookup(api, info) ==
    IF ~api.raised /\ api.status_code = 200 /\ dict_get(api.data, "status", "") = "success"
    THEN [result |-> <<dict_get(api.data, "city", ""),
                       dict_get(api.data, "country", ""),
                       _clean_asn(py_or(dict_get(api.data, "as", ""),
                                        dict_get(api.data, "org", "")))>>,
          requests |-> <<"ip-api.com">>]
    ELSE IF ~info.raised /\ info.status_code = 200
    THEN LET code == dict_get(info.data, "country", "")
             country == IF Len(code) = 2 /\ upper(code) \in DOMAIN country_codes
                        THEN country_codes[upper(code)]
                        ELSE code
         IN  [result |-> <<dict_get(info.data, "city", ""), country,
                           _clean_asn(dict_get(info.data, "org", ""))>>,
              requests |-> <<"ip-api.com", "ipinfo.io">>]
    ELSE [result |-> <<"", "Unknown", "">>,
          requests |-> <<"ip-api.com", "ipinfo.io">>]

\* ------------------------------------------------------------------------
\* GeoIPLookup.lookup
\*
\* lookup(ip) is the set of the ways one call can end, one for every answer
\* the data sources it reaches can give.  A way the call ends is a record:
\* what it returned (result) or the exception that left it (raised), the
\* cache that answered it (hit), the tiers it consulted with what each
\* produced (trace), the services it sent requests to (requests), whether
\* the rate limiter stopped it (limited), whether _cache_result ran (wrote),
\* and the resolver's fields and the file afterwards.
\* ------------------------------------------------------------------------

\* a tier that was consulted: the exception it ended with, if any, and the
\* country it came up with
consulted(tier, raised, country) ==
    [tier |-> tier, raised |-> raised, country |-> country]

\* the call returns `result` and leaves the resolver as it was
returned(result, hit, trace, requests, limited) ==
    [result |-> result, raised |-> "", hit |-> hit, trace |-> trace,
     requests |-> requests, limited |-> limited, wrote |-> FALSE,
     pcache |-> persistent_cache, ocache |-> online_cache,
     lol |-> last_online_lookup, file |-> cache_file, io |-> "ok"]

\* the call caches `result` with _cache_result and returns it; when the
\* write makes a flush due, the save can end in each way
cached_and_returned(ip_address, result, trace, requests, lol) ==
    {LET c == _cache_result(ip_address, result[1], result[2], result[3], io) IN
     [result |-> result, raised |-> "", hit |-> "", trace |-> trace,
      requests |-> requests, limited |-> FALSE, wrote |-> TRUE,
      pcache |-> c.pcache, ocache |-> c.ocache, lol |-> lol, file |-> c.file,
      io |-> io] :
        io \in IF flush_due(dict_put(persistent_cache, ip_address, <<>>))
               THEN SaveOutcomes ELSE {"ok"}}

\* an exception leaves the call: nothing is returned
propagated(raised, trace) ==
    [returned(<<>>, "", trace, <<>>, FALSE) EXCEPT !.raised = raised]

\* A faulty online block that does not look at use_online.
online_block_whatever_the_flag(ip_address, trace) ==
    IF ~REQUESTS_AVAILABLE
    THEN {returned(<<"", "Unknown", "">>, "", trace, <<>>, FALSE)}
    ELSE IF rate_limited(ip_address, clock)
    THEN {returned(<<"", "Unknown", "">>, "", trace, <<>>, TRUE)}
    ELSE UNION {
        LET ol == _online_lookup(api, info)
            t3 == trace \o <<consulted("online", "", ol.result[2])>>
            lol == dict_put(last_online_lookup, ip_address, clock)
        IN  IF online_accepts(ol.result)
            THEN cached_and_returned(ip_address, ol.result, t3, ol.requests, lol)
            ELSE {[returned(<<"", "Unknown", "">>, "", t3, ol.requests, FALSE)
                      EXCEPT !.lol = lol]} :
        api \in ApiResponses(ip_address), info \in InfoResponses(ip_address)}

\* "Method 3": the online APIs, with rate limiting
online_block(ip_address, trace) ==
    IF ~(REQUESTS_AVAILABLE /\ use_online)
    THEN {returned(<<"", "Unknown", "">>, "", trace, <<>>, FALSE)}
    ELSE IF rate_limited(ip_address, clock)
    THEN {returned(<<"", "Unknown", "">>, "", trace, <<>>, TRUE)}
    ELSE UNION {
        LET ol == _online_lookup(api, info)
            t3 == trace \o <<consulted("online", "", ol.result[2])>>
            lol == dict_put(last_online_lookup, ip_address, clock)
        IN  IF online_accepts(ol.result)
            THEN cached_and_returned(ip_address, ol.result, t3, ol.requests, lol)
            ELSE {[returned(<<"", "Unknown", "">>, "", t3, ol.requests, FALSE)
                      EXCEPT !.lol = lol]} :
        api \in ApiResponses(ip_address), info \in InfoResponses(ip_address)}

\* "Method 2": the built-in database
simple_block(ip_address, trace) ==
    IF simple_db = None THEN online_block(ip_address, trace)
    ELSE LET sd == simple_db_lookup(simple_db.ip_ranges, ip_address)
             t2 == trace \o <<consulted("simple", "", sd[2])>>
         IN  IF simple_accepts(sd[2])
             THEN cached_and_returned(ip_address, sd, t2, <<>>, last_online_lookup)
             ELSE online_block(ip_address, t2)

\* "Method 1": the MaxMind databases
maxmind_block(ip_address) ==
    LET mm == maxmind_lookup(CityResponse(ip_address), AsnResponse(ip_address))
        t1 == <<consulted("maxmind", mm.raised, mm.country)>>
    IN  IF mm.raised # "" /\ ~maxmind_catches(mm.raised)
        THEN {propagated(mm.raised, t1)}
        ELSE IF mm.raised = "" /\ maxmind_accepts(mm.country)
        THEN cached_and_returned(ip_address, <<mm.city, mm.country, mm.asn>>, t1,
                                 <<>>, last_online_lookup)
        ELSE simple_block(ip_address, t1)

\* A faulty lookup that does not check the caches.
lookup_without_cache(ip_address) ==
    IF is_placeholder(ip_address)
    THEN {returned(<<"", "", "">>, "", <<>>, <<>>, FALSE)}
    ELSE IF _is_private_ip(ip_address)
    THEN {returned(<<"", "Private", "Local Network">>, "", <<>>, <<>>, FALSE)}
    ELSE IF ~city_reader
    THEN simple_block(ip_address, <<>>)
    ELSE maxmind_block(ip_address)

\* A faulty lookup that stamps an entry anew when it answers from it.
lookup_stamping_hits(ip_address) ==
    IF is_placeholder(ip_address)
    THEN {returned(<<"", "", "">>, "", <<>>, <<>>, FALSE)}
    ELSE IF _is_private_ip(ip_address)
    THEN {returned(<<"", "Private", "Local Network">>, "", <<>>, <<>>, FALSE)}
    ELSE IF ip_address \in DOMAIN persistent_cache
    THEN LET cached_data == persistent_cache[ip_address] IN
         {[returned(<<cached_data.city, cached_data.country, cached_data.asn>>,
                    "persistent", <<>>, <<>>, FALSE)
              EXCEPT !.pcache = dict_put(persistent_cache, ip_address,
                                         [cached_data EXCEPT !.timestamp = clock])]}
    ELSE IF ip_address \in DOMAIN online_cache
    THEN {returned(online_cache[ip_address], "runtime", <<>>, <<>>, FALSE)}
    ELSE IF ~city_reader
    THEN simple_block(ip_address, <<>>)
    ELSE maxmind_block(ip_address)

\* GeoIPLookup.lookup(ip_address)
lookup(ip_address) ==
    IF is_placeholder(ip_address)
    THEN {returned(<<"", "", "">>, "", <<>>, <<>>, FALSE)}
    ELSE IF _is_private_ip(ip_address)
    THEN {returned(<<"", "Private", "Local Network">>, "", <<>>, <<>>, FALSE)}
    ELSE IF ip_address \in DOMAIN persistent_cache
    THEN LET cached_data == persistent_cache[ip_address] IN
         {returned(<<cached_data.city, cached_data.country, cached_data.asn>>,
                   "persistent", <<>>, <<>>, FALSE)}
    ELSE IF ip_address \in DOMAIN online_cache
    THEN {returned(online_cache[ip_address], "runtime", <<>>, <<>>, FALSE)}
    ELSE IF ~city_reader
    THEN simple_block(ip_address, <<>>)
    ELSE maxmind_block(ip_address)

\* ------------------------------------------------------------------------
\* main() and the operations that drive the resolver
\* ------------------------------------------------------------------------

\* the ways main leaves its try block: the loop or file mode returns, a
\* KeyboardInterrupt arrives, another exception arrives
ExitKinds == {"return", "interrupt", "fatal"}

\* A faulty main that closes the resolver only when the loop returns.
main_closes_on_return(kind) ==
    kind = "return"

\* main's finally clause: geoip.close() is called on every way out
main_closes(kind) ==
    kind \in {"return", "interrupt", "fatal"}

\* the process before main builds anything
Fresh ==
    /\ pc = "start"
    /\ use_online = FALSE
    /\ city_reader = FALSE
    /\ simple_db = None
    /\ persistent_cache = [ip \in {} |-> <<>>]
    /\ online_cache = [ip \in {} |-> <<>>]
    /\ last_online_lookup = [ip \in {} |-> 0]
    /\ call = NoCall
    /\ written = [ip \in {} |-> <<>>]
    /\ last_request = [ip \in {} |-> 0]
    /\ op = [name |-> "none", io |-> "ok", at |-> 0]
    /\ closed = FALSE

\* the first start of the tool on a host: no cache file yet
FirstStart(installations, populations) ==
    /\ Fresh
    /\ Idle
    /\ runs = 1
    /\ clock = 0
    /\ installation \in installations
    /\ addresses \in populations
    /\ REQUESTS_AVAILABLE = installation.requests
    /\ cache_file = [kind |-> "absent"]
    /\ peer = None

Init ==
    FirstStart(Installations, {PublicAddresses, OtherAddresses})

\* GeoIPLookup.__init__ as main calls it: _load_cache, then
\* _init_lookup_methods with what is installed.
Construct(io) ==
    /\ pc = "start"
    /\ pc' = "running"
    /\ use_online' = installation.online
    /\ city_reader' = installation.maxmind
    /\ simple_db' = IF installation.builtin THEN SimpleGeoDatabase ELSE None
    /\ persistent_cache' = _load_cache(io)
    /\ online_cache' = [ip \in {} |-> <<>>]
    /\ last_online_lookup' = [ip \in {} |-> 0]
    /\ op' = [name |-> "load", io |-> io, at |-> clock]
    /\ UNCHANGED <<runs, clock, host, others, REQUESTS_AVAILABLE, cache_file, call, written,
                   last_request, closed>>

\* main ends before the resolver exists (an interrupt or an error while it is
\* being constructed): the finally clause has no geoip to close.
EarlyExit ==
    /\ pc = "start"
    /\ pc' = "exited"
    /\ op' = [name |-> "early_exit", io |-> "ok", at |-> clock]
    /\ UNCHANGED <<runs, clock, host, others, resolver, cache_file, call, written,
                   last_request, closed>>

\* what a lookup call that ended as `r` leaves in the resolver, in the file
\* and in the books
resolved(ip_address, r) ==
    /\ persistent_cache' = r.pcache
    /\ online_cache' = r.ocache
    /\ last_online_lookup' = r.lol
    /\ cache_file' = r.file
    /\ call' = [n |-> call.n + 1, ip |-> ip_address, result |-> r.result,
                raised |-> r.raised, hit |-> r.hit, trace |-> r.trace,
                requests |-> r.requests, limited |-> r.limited,
                wrote |-> r.wrote]
    /\ written' = IF r.wrote THEN dict_put(written, ip_address, r.result)
                  ELSE written
    /\ last_request' = IF r.requests # <<>>
                       THEN dict_put(last_request, ip_address, clock)
                       ELSE last_request
    /\ op' = [name |-> "lookup", io |-> r.io, at |-> clock]

\* one call of lookup
Lookup(ip_address) ==
    /\ pc = "running"
    /\ call.n < MaxCalls
    /\ \E r \in lookup(ip_address) : resolved(ip_address, r)
    /\ UNCHANGED <<pc, runs, clock, host, others, REQUESTS_AVAILABLE, use_online,
                   city_reader, simple_db, closed>>

\* main leaves its try block and runs the finally clause: GeoIPLookup.close,
\* which saves the cache first.
Exit(kind, io) ==
    /\ pc = "running"
    /\ pc' = "exited"
    /\ closed' = main_closes(kind)
    /\ cache_file' = IF main_closes(kind) THEN _save_cache(persistent_cache, io)
                     ELSE cache_file
    /\ op' = [name |-> "exit", io |-> io, at |-> clock]
    /\ UNCHANGED <<runs, clock, host, others, resolver, call, written, last_request>>

\* the tool is started again: a new process, nothing in memory
Restart ==
    /\ pc = "exited"
    /\ runs < MaxRuns
    /\ runs' = runs + 1
    /\ pc' = "start"
    /\ use_online' = FALSE
    /\ city_reader' = FALSE
    /\ simple_db' = None
    /\ persistent_cache' = [ip \in {} |-> <<>>]
    /\ online_cache' = [ip \in {} |-> <<>>]
    /\ last_online_lookup' = [ip \in {} |-> 0]
    /\ call' = NoCall
    /\ written' = [ip \in {} |-> <<>>]
    /\ last_request' = [ip \in {} |-> 0]
    /\ op' = [name |-> "restart", io |-> "ok", at |-> clock]
    /\ closed' = FALSE
    /\ UNCHANGED <<clock, host, others, REQUESTS_AVAILABLE, cache_file>>

\* the wall clock moves on by a second
TickSecond ==
    /\ clock % timedelta_days(retention_days) < MaxSeconds
    /\ clock' = clock + 1
    /\ UNCHANGED <<pc, runs, host, others, resolver, cache_file, call, written,
                   last_request, op, closed>>

\* the wall clock moves on by the length of the retention window
TickWeek ==
    /\ clock \div timedelta_days(retention_days) < MaxWeeks
    /\ clock' = clock + timedelta_days(retention_days)
    /\ UNCHANGED <<pc, runs, host, others, resolver, cache_file, call, written,
                   last_request, op, closed>>

\* one run of main
Next ==
    \/ \E io \in LoadOutcomes : Construct(io)
    \/ EarlyExit
    \/ \E ip_address \in addresses : Lookup(ip_address)
    \/ \E kind \in ExitKinds, io \in SaveOutcomes : Exit(kind, io)
    \/ TickSecond

Spec == Init /\ [][Next]_vars

\* runs of main one after the other on the same cache file, on a host with
\* the default installation
InitStore ==
    FirstStart({DefaultInstallation}, {StoreAddresses})

NextStore ==
    \/ Next
    \/ Restart
    \/ TickWeek

SpecStore == InitStore /\ [][NextStore]_vars

\* A run on a host whose cache file holds nine entries that earlier runs
\* resolved through the services: the next entry written makes a flush due.
InitFlush ==
    /\ Fresh
    /\ Idle
    /\ runs = 2
    /\ clock = 0
    /\ installation = DefaultInstallation
    /\ addresses = StoreAddresses
    /\ REQUESTS_AVAILABLE = installation.requests
    /\ peer = None
    /\ cache_file =
           [kind |-> "pickle", saved_at |-> 0,
            cache |-> [ip \in {"203.0.113.1", "203.0.113.2", "203.0.113.3",
                               "203.0.113.4", "203.0.113.5", "203.0.113.6",
                               "203.0.113.7", "203.0.113.8", "203.0.113.9"} |->
                          [city |-> "Berlin", country |-> "Germany",
                           asn |-> "Deutsche Telekom AG", timestamp |-> 0]]]

SpecFlush == InitFlush /\ [][Next]_vars

\* lookups of one address in one run
MaxPolls == 3

\* A run that looks the same remote address up again and again, as the
\* iterations of the monitoring loop do for a connection that stays open.
Poll(ip_address) ==
    /\ pc = "running"
    /\ call.n < MaxPolls
    /\ \E r \in lookup(ip_address) : resolved(ip_address, r)
    /\ UNCHANGED <<pc, runs, clock, host, others, REQUESTS_AVAILABLE, use_online,
                   city_reader, simple_db, closed>>

\* the host talks to two addresses that no local database knows
InitPoll ==
    FirstStart({DefaultInstallation}, {{"93.184.216.34", "169.254.1.1"}})

NextPoll ==
    \/ Construct("ok")
    \/ \E ip_address \in addresses : Poll(ip_address)
    \/ TickSecond

SpecPoll == InitPoll /\ [][NextPoll]_vars

\* ------------------------------------------------------------------------
\* Two processes of the tool on one host.  Each has its own memory; the
\* cache file, which lies next to the script, and the clock are the host's.
\* The model follows the process that has the processor and keeps the
\* memory of the other one in `peer`.
\* ------------------------------------------------------------------------

\* the memory of a process that has not entered main
NewProcess ==
    [pc |-> "start", use_online |-> FALSE, city_reader |-> FALSE,
     simple_db |-> None, persistent_cache |-> [ip \in {} |-> <<>>],
     online_cache |-> [ip \in {} |-> <<>>], last_online_lookup |-> [ip \in {} |-> 0],
     call |-> NoCall, written |-> [ip \in {} |-> <<>>],
     last_request |-> [ip \in {} |-> 0],
     op |-> [name |-> "none", io |-> "ok", at |-> 0], closed |-> FALSE]

\* the operating system gives the processor to the other process
Switch ==
    /\ peer # None
    /\ peer' = [pc |-> pc, use_online |-> use_online, city_reader |-> city_reader,
                simple_db |-> simple_db, persistent_cache |-> persistent_cache,
                online_cache |-> online_cache,
                last_online_lookup |-> last_online_lookup, call |-> call,
                written |-> written, last_request |-> last_request, op |-> op,
                closed |-> closed]
    /\ pc' = peer.pc
    /\ use_online' = peer.use_online
    /\ city_reader' = peer.city_reader
    /\ simple_db' = peer.simple_db
    /\ persistent_cache' = peer.persistent_cache
    /\ online_cache' = peer.online_cache
    /\ last_online_lookup' = peer.last_online_lookup
    /\ call' = peer.call
    /\ written' = peer.written
    /\ last_request' = peer.last_request
    /\ op' = peer.op
    /\ closed' = peer.closed
    /\ UNCHANGED <<runs, clock, installation, addresses, others, REQUESTS_AVAILABLE,
                   cache_file>>

\* the tool is started twice on a host that has no cache file yet
InitShared ==
    /\ Fresh
    /\ Idle
    /\ runs = 2
    /\ clock = 0
    /\ installation = DefaultInstallation
    /\ addresses = StoreAddresses
    /\ REQUESTS_AVAILABLE = installation.requests
    /\ cache_file = [kind |-> "absent"]
    /\ peer = NewProcess

\* both processes load the file without an error
NextShared ==
    \/ Construct("ok")
    \/ \E ip_address \in addresses : Lookup(ip_address)
    \/ \E kind \in ExitKinds, io \in SaveOutcomes : Exit(kind, io)
    \/ Switch

SpecShared == InitShared /\ [][NextShared]_vars

\* ------------------------------------------------------------------------
\* NetworkConnection and CrossPlatformNetworkTools: the connection enumerator
\* ------------------------------------------------------------------------

\* s.lower() on ASCII text
RECURSIVE lower(_)
lower(s) ==
    IF Len(s) = 0 THEN ""
    ELSE LET c == SubSeq(s, 1, 1) IN
         (IF \E k \in DOMAIN UpperOf : UpperOf[k] = c
          THEN CHOOSE k \in DOMAIN UpperOf : UpperOf[k] = c
          ELSE c) \o lower(SubSeq(s, 2, Len(s)))

\* line.split(): the pieces of a line between runs of blanks
py_split(line) ==
    SelectSeq(split(line, " "), LAMBDA part : part # "")

\* NetworkConnection(protocol=..., ...): city, country and asn default to ""
NetworkConnection(protocol, local_address, foreign_address, state, pid) ==
    [protocol |-> protocol, local_address |-> local_address,
     foreign_address |-> foreign_address, state |-> state, pid |-> pid,
     city |-> "", country |-> "", asn |-> ""]

\* A faulty is_foreign that takes every other country text for foreign.
is_foreign_whatever_it_is(conn, local_country) ==
    local_country.none \/ conn.country # local_country.str

\* NetworkConnection.is_foreign(local_country); the monitor's local_country
\* is a str or None
is_foreign(conn, local_country) ==
    IF conn.country = "" \/ conn.country \in {"", "Unknown", "Local Network", "Private"}
    THEN FALSE
    ELSE local_country.none \/ conn.country # local_country.str

\* A faulty is_listening that compares the state as it was printed.
is_listening_as_printed(conn) ==
    conn.state \in {"LISTEN"}

\* NetworkConnection.is_listening
is_listening(conn) ==
    upper(conn.state) \in {"LISTENING", "LISTEN"}

\* NetworkConnection.is_uninteresting
is_uninteresting(conn) ==
    \/ /\ upper(conn.protocol) = "UDP"
       /\ \/ startswith(conn.foreign_address, "0.0.0.0:")
          \/ startswith(conn.foreign_address, "*:")
          \/ conn.foreign_address = "*:*"
          \/ conn.foreign_address = "0.0.0.0:0"
    \/ /\ str_in("127.0.0.1", conn.local_address)
       /\ str_in("127.0.0.1", conn.foreign_address)
    \/ conn.foreign_address \in {"0.0.0.0:0", "*:*", ":::0"}

\* re.search(r'pid=(\d+)', text).group(1), "" when nothing matches
RECURSIVE pid_match(_, _)
pid_match(text, i) ==
    LET k == str_find(text, "pid=", i)
        digits[j \in 1..(Len(text) + 1)] ==
            IF j <= Len(text) /\ SubSeq(text, j, j) \in DOMAIN DigitValue
            THEN SubSeq(text, j, j) \o digits[j + 1] ELSE ""
    IN  IF k = 0 THEN ""
        ELSE IF digits[k + 4] # "" THEN digits[k + 4]
        ELSE pid_match(text, k + 1)

\* the loop body of _get_windows_connections for a stripped line
windows_record(protocol, filter_listening, line) ==
    IF ~(/\ line # ""
         /\ ~startswith(line, "Active")
         /\ ~startswith(line, "Proto")
         /\ (startswith(line, "TCP") \/ startswith(line, "UDP")))
    THEN <<>>
    ELSE LET parts == py_split(line) IN
         IF Len(parts) < 4 THEN <<>>
         ELSE IF protocol = "tcp" /\ Len(parts) >= 5
         THEN LET conn == NetworkConnection(parts[1], parts[2], parts[3],
                                            parts[4], parts[5])
              IN  IF filter_listening /\ is_listening(conn) THEN <<>>
                  ELSE IF is_uninteresting(conn) THEN <<>>
                  ELSE <<conn>>
         ELSE IF protocol = "udp"
         THEN LET conn == NetworkConnection(parts[1], parts[2], parts[3],
                                            "", parts[4])
              IN  IF is_uninteresting(conn) THEN <<>> ELSE <<conn>>
         ELSE <<>>

\* the loop body of _get_unix_netstat_connections for a stripped line
netstat_record(protocol, filter_listening, line) ==
    IF line = "" \/ \E prefix \in {"Active", "Proto", "tcp", "udp"} :
                        startswith(line, prefix)
    THEN <<>>
    ELSE LET parts == py_split(line) IN
         IF Len(parts) < 6 \/ lower(parts[1]) # protocol THEN <<>>
         ELSE LET state == IF protocol = "tcp" THEN parts[6] ELSE ""
                  conn == NetworkConnection(upper(parts[1]), parts[4], parts[5],
                                            state, "")
              IN  IF filter_listening /\ is_listening(conn) THEN <<>>
                  ELSE IF is_uninteresting(conn) THEN <<>>
                  ELSE <<conn>>

\* the loop body of _get_unix_ss_connections for a stripped line
ss_record(protocol, filter_listening, line) ==
    IF line = "" \/ \E prefix \in {"State", "Netid", "UNCONN", "LISTEN"} :
                        startswith(line, prefix)
    THEN <<>>
    ELSE LET parts == py_split(line) IN
         IF Len(parts) < 5 THEN <<>>
         ELSE LET state == IF protocol = "tcp" THEN parts[1] ELSE ""
                  pid == IF Len(parts) > 5 /\ str_in("pid=", parts[6])
                         THEN pid_match(parts[6], 1) ELSE ""
                  conn == NetworkConnection(upper(protocol), parts[4], parts[5],
                                            state, pid)
              IN  IF filter_listening /\ (is_listening(conn) \/ state = "LISTEN")
                  THEN <<>>
                  ELSE IF is_uninteresting(conn) THEN <<>>
                  ELSE <<conn>>

\* the records the loop of the parser of `tool` appends, line after line
parse_lines(tool, protocol, filter_listening, lines) ==
    LET record(line) ==
            CASE tool = "windows" -> windows_record(protocol, filter_listening, line)
              [] tool = "netstat" -> netstat_record(protocol, filter_listening, line)
              [] tool = "ss" -> ss_record(protocol, filter_listening, line)
        connections[n \in 0..Len(lines)] ==
            IF n = 0 THEN <<>>
            ELSE connections[n - 1] \o record(strip(lines[n]))
    IN  connections[Len(lines)]

\* the exceptions subprocess.run ends with: a non-zero exit under check=True,
\* a missing binary, a timeout
ToolFailures ==
    {"CalledProcessError", "FileNotFoundError", "TimeoutExpired"}

\* subprocess.run(cmd, ...): the ways it can end, given what the tool can
\* print and the exceptions the call can end with
subprocess_run(cmd, stdouts, failures) ==
    {[cmd |-> cmd, outcome |-> "ok", stdout |-> stdout] : stdout \in stdouts}
    \cup {[cmd |-> cmd, outcome |-> f, stdout |-> <<>>] : f \in failures}

\* _get_windows_connections: both except clauses log and fall through to the
\* return; the call has no timeout
_get_windows_connections(protocol, filter_listening, stdouts) ==
    {[connections |->
          IF run.outcome = "ok"
          THEN parse_lines("windows", protocol, filter_listening, run.stdout)
          ELSE <<>>,
      raised |-> "",
      invoked |-> <<[cmd |-> run.cmd, outcome |-> run.outcome]>>,
      stdout |-> run.stdout] :
        run \in subprocess_run(<<"netstat", "-ano", "-p", protocol>>, stdouts.netstat,
                               ToolFailures \ {"TimeoutExpired"})}

\* _get_unix_netstat_connections: both except clauses re-raise
_get_unix_netstat_connections(protocol, filter_listening, stdouts) ==
    LET cmd == IF nettools.os_type = "macos"
               THEN <<"netstat", "-an", "-p", protocol>>
               ELSE IF protocol = "tcp" THEN <<"netstat", "-ant">>
               ELSE <<"netstat", "-anu">>
    IN  {[connections |->
              IF run.outcome = "ok"
              THEN parse_lines("netstat", protocol, filter_listening, run.stdout)
              ELSE <<>>,
          raised |-> IF run.outcome = "ok" THEN "" ELSE run.outcome,
          invoked |-> <<[cmd |-> run.cmd, outcome |-> run.outcome]>>,
      stdout |-> run.stdout] :
            run \in subprocess_run(cmd, stdouts.netstat, ToolFailures)}

\* A faulty ss parser that asks ss for its version before every run.
_get_unix_ss_connections_reprobing(protocol, filter_listening, stdouts) ==
    LET cmd == IF protocol = "tcp" THEN <<"ss", "-ant">> ELSE <<"ss", "-anu">>
    IN  {[connections |->
              IF run.outcome = "ok"
              THEN parse_lines("ss", protocol, filter_listening, run.stdout)
              ELSE <<>>,
          raised |-> IF run.outcome = "ok" THEN "" ELSE run.outcome,
          invoked |-> <<[cmd |-> <<"ss", "--version">>, outcome |-> "ok"],
                        [cmd |-> run.cmd, outcome |-> run.outcome]>>,
          stdout |-> run.stdout] :
            run \in subprocess_run(cmd, stdouts.ss, ToolFailures)}

\* _get_unix_ss_connections: the command is first tried with -p, which stays
\* on the command when that trial exits with 0
_get_unix_ss_connections(protocol, filter_listening, stdouts) ==
    LET cmd == IF protocol = "tcp" THEN <<"ss", "-ant">> ELSE <<"ss", "-anu">>
    IN  UNION {
        {[connections |->
              IF run.outcome = "ok"
              THEN parse_lines("ss", protocol, filter_listening, run.stdout)
              ELSE <<>>,
          raised |-> IF run.outcome = "ok" THEN "" ELSE run.outcome,
          invoked |-> <<[cmd |-> cmd \o <<"-p">>, outcome |-> test_result],
                        [cmd |-> run.cmd, outcome |-> run.outcome]>>,
          stdout |-> run.stdout] :
            run \in subprocess_run(IF test_result = "ok" THEN cmd \o <<"-p">> ELSE cmd,
                                   stdouts.ss, ToolFailures)} :
        test_result \in {"ok", "returncode 1", "TimeoutExpired"}}

\* a call that ran `first` and then `second`
then(first, second) ==
    [second EXCEPT !.invoked = first.invoked \o second.invoked]

\* the end of _get_unix_connections, when no tool returned
no_tool_returned ==
    [connections |-> <<>>,
     raised |-> IF nettools.available_tools = <<>> THEN "Exception" ELSE "",
     invoked |-> <<>>, stdout |-> <<>>]

\* `first` is tried, then `second` if `first` did not return; a tool that is
\* not available is skipped
fall_back(first, second) ==
    UNION {IF f.raised = "" THEN {f}
           ELSE {IF s.raised = "" THEN then(f, s)
                 ELSE then(then(f, s), no_tool_returned) : s \in second} :
           f \in first}

\* the ways the parser of `tool` can end, if the tool is available
tried(tool, protocol, filter_listening, stdouts) ==
    IF \A i \in DOMAIN nettools.available_tools : nettools.available_tools[i] # tool
    THEN {[connections |-> <<>>, raised |-> "skipped", invoked |-> <<>>,
           stdout |-> <<>>]}
    ELSE IF tool = "netstat"
    THEN _get_unix_netstat_connections(protocol, filter_listening, stdouts)
    ELSE _get_unix_ss_connections(protocol, filter_listening, stdouts)

\* A faulty _get_unix_connections that prefers ss.
_get_unix_connections_ss_first(protocol, filter_listening, stdouts) ==
    fall_back(tried("ss", protocol, filter_listening, stdouts),
              tried("netstat", protocol, filter_listening, stdouts))

\* _get_unix_connections: netstat if it is available, ss if it is available
\* and netstat did not return
_get_unix_connections(protocol, filter_listening, stdouts) ==
    fall_back(tried("netstat", protocol, filter_listening, stdouts),
              tried("ss", protocol, filter_listening, stdouts))

\* A faulty get_connections without the try block.
get_connections_unguarded(protocol, filter_listening, stdouts) ==
    IF nettools.os_type = "windows"
    THEN _get_windows_connections(protocol, filter_listening, stdouts)
    ELSE _get_unix_connections(protocol, filter_listening, stdouts)

\* CrossPlatformNetworkTools.get_connections: the ways one call can end
get_connections(protocol, filter_listening, stdouts) ==
    {IF w.raised = "" THEN w
     ELSE [w EXCEPT !.connections = <<>>, !.raised = "", !.stdout = <<>>] :
        w \in IF nettools.os_type = "windows"
              THEN _get_windows_connections(protocol, filter_listening, stdouts)
              ELSE _get_unix_connections(protocol, filter_listening, stdouts)}

\* CrossPlatformNetworkTools(): _detect_os and _detect_available_tools, which
\* probes netstat, and ss unless the system is Windows
CrossPlatformNetworkTools ==
    [os_type |-> platform.os_type,
     available_tools |->
         (IF "netstat" \in platform.tools THEN <<"netstat">> ELSE <<>>)
         \o (IF platform.os_type # "windows" /\ "ss" \in platform.tools
             THEN <<"ss">> ELSE <<>>)]

\* ------------------------------------------------------------------------
\* The hosts the enumerator runs on and what their tools print
\* ------------------------------------------------------------------------

\* lines in one output of a tool
MaxLines == 2

\* OSType and the tools that answer the probes
Platforms ==
    [os_type : {"windows", "linux", "macos", "unknown"},
     tools : SUBSET {"netstat", "ss"}]

\* lines of `netstat -ano` on Windows
WindowsLines ==
    {"  Proto  Local Address  Foreign Address  State  PID",
     "  TCP  192.168.1.5:50000  93.184.216.34:443  ESTABLISHED  1234",
     "  TCP  [::]:135  [::]:0  LISTENING  888",
     "  TCP  127.0.0.1:5000  127.0.0.1:5001  ESTABLISHED  1234",
     "  TCP  [::1]:5000  [::1]:5001  ESTABLISHED  1234",
     "  UDP  0.0.0.0:123  *:*  1234",
     "  UDP  [::1]:1900  *:*  1234"}

\* lines of netstat on Linux and macOS, and the same with the protocol in
\* capitals
NetstatLines ==
    {"Proto Recv-Q Send-Q Local Address Foreign Address State",
     "tcp 0 0 127.0.0.1:5000 127.0.0.1:5001 ESTABLISHED",
     "tcp 0 0 192.168.1.5:50000 93.184.216.34:443 ESTABLISHED",
     "udp 0 0 0.0.0.0:68 0.0.0.0:*",
     "TCP 0 0 192.168.1.5:50000 93.184.216.34:443 ESTABLISHED",
     "TCP 0 0 :::22 :::* LISTEN",
     "TCP 0 0 ::1:5000 ::1:5001 ESTABLISHED",
     "UDP 0 0 192.168.1.5:5353 224.0.0.251:5353 ESTABLISHED"}

\* lines of ss
SsLines ==
    {"State Recv-Q Send-Q Local Address:Port Peer Address:Port",
     "ESTAB 0 0 192.168.1.5:50000 93.184.216.34:443",
     "ESTAB 0 0 127.0.0.1:5000 127.0.0.1:5001",
     "ESTAB 0 0 [::1]:5000 [::1]:5001",
     "LISTEN 0 128 0.0.0.0:22 0.0.0.0:*",
     "UNCONN 0 0 0.0.0.0:68 0.0.0.0:*",
     "ESTAB 0 0 192.168.1.5:22 203.0.113.7:51234 users:((\"sshd\",pid=812,fd=3))"}

\* what the tools of a system can print: up to MaxLines of their lines
Outputs(os_type) ==
    LET texts(lines) == UNION {[1..n -> lines] : n \in 0..MaxLines} IN
    [netstat |-> texts(IF os_type = "windows" THEN WindowsLines ELSE NetstatLines),
     ss |-> texts(SsLines)]

\* whole screens of the tools on a host that runs a server and a browser:
\* a header and the connections; for the Unix netstat, as it prints them and
\* with the protocol in capitals
Screens(os_type) ==
    [netstat |->
         IF os_type = "windows"
         THEN {<<"  Proto  Local Address  Foreign Address  State  PID",
                 "  TCP  [::]:135  [::]:0  LISTENING  888",
                 "  TCP  192.168.1.5:50000  93.184.216.34:443  ESTABLISHED  1234",
                 "  UDP  0.0.0.0:123  *:*  1234">>}
         ELSE {<<"Proto Recv-Q Send-Q Local Address Foreign Address State",
                 "tcp 0 0 192.168.1.5:50000 93.184.216.34:443 ESTABLISHED",
                 "udp 0 0 0.0.0.0:68 0.0.0.0:*">>,
               <<"Proto Recv-Q Send-Q Local Address Foreign Address State",
                 "TCP 0 0 :::22 :::* LISTEN",
                 "TCP 0 0 192.168.1.5:50000 93.184.216.34:443 ESTABLISHED",
                 "UDP 0 0 192.168.1.5:5353 224.0.0.251:5353 ESTABLISHED">>},
     ss |-> {<<"State Recv-Q Send-Q Local Address:Port Peer Address:Port",
               "ESTAB 0 0 192.168.1.5:50000 93.184.216.34:443",
               "ESTAB 0 0 [::1]:5000 [::1]:5001">>}]

\* ------------------------------------------------------------------------
\* The test scripts: test_simple_db probes the static table, test_geo_lookup
\* builds a GeoIPLookup with its defaults, resolves its test addresses and
\* closes it, as main does.
\* ------------------------------------------------------------------------

\* What the table is probed with: both ends of every row, the addresses just
\* outside them, and texts that are no dotted quad.  An address is written
\* as str(ipaddress.IPv4Address(x)) writes it, x being its two 16-bit halves.
ProbeAddresses ==
    LET Digits == <<"0", "1", "2", "3", "4", "5", "6", "7", "8", "9">>
        str[n \in 0..255] ==
            IF n < 10 THEN Digits[n + 1]
            ELSE str[n \div 10] \o Digits[(n % 10) + 1]
        dotted(x) ==
            str[x[1] \div 256] \o "." \o str[x[1] % 256] \o "."
                \o str[x[2] \div 256] \o "." \o str[x[2] % 256]
        before(x) ==
            IF x[2] = 0 THEN <<x[1] - 1, 65535>> ELSE <<x[1], x[2] - 1>>
        after(x) ==
            IF x[2] = 65535 THEN <<x[1] + 1, 0>> ELSE <<x[1], x[2] + 1>>
    IN  UNION {{ip_ranges[i].start, ip_ranges[i].end,
                dotted(before(ipv4_int(ip_ranges[i].start))),
                dotted(after(ipv4_int(ip_ranges[i].end)))} : i \in DOMAIN ip_ranges}
        \cup {"", "2606", "8.8.8", "8.8.8.8.443", "256.1.1.1", "08.8.8.8", "::1",
              "a.b.c.d"}

\* the test addresses of test_geo_lookup
TestAddresses ==
    {"8.8.8.8", "1.1.1.1", "208.67.222.222", "74.125.224.72", "151.101.193.140",
     "127.0.0.1", "192.168.1.1"}

\* a script is running that builds no resolver
Script(name) ==
    /\ pc = name
    /\ runs = 1
    /\ clock = 0
    /\ installation = DefaultInstallation
    /\ addresses = {}
    /\ peer = None
    /\ REQUESTS_AVAILABLE = installation.requests
    /\ use_online = FALSE
    /\ city_reader = FALSE
    /\ simple_db = None
    /\ persistent_cache = [ip \in {} |-> <<>>]
    /\ online_cache = [ip \in {} |-> <<>>]
    /\ last_online_lookup = [ip \in {} |-> 0]
    /\ cache_file = [kind |-> "absent"]
    /\ call = NoCall
    /\ written = [ip \in {} |-> <<>>]
    /\ last_request = [ip \in {} |-> 0]
    /\ op = [name |-> "none", io |-> "ok", at |-> 0]
    /\ closed = FALSE

\* test_simple_db is started: it builds a SimpleGeoDatabase of its own
StartTestSimpleDb ==
    /\ Script("test_simple_db")
    /\ Idle

\* One round of test_simple_db's loop: db.lookup(ip).  A lookup leaves the
\* database as it was, so the rounds are independent and one is followed.
test_simple_db(ip_address) ==
    /\ pc = "test_simple_db"
    /\ probe = NoProbe
    /\ probe' = [fn |-> "SimpleGeoDatabase.lookup", input |-> ip_address,
                 output |-> simple_db_lookup(SimpleGeoDatabase.ip_ranges, ip_address)]
    /\ UNCHANGED <<pc, runs, clock, host, resolver, cache_file, call, written,
                   last_request, op, closed, platform, monitor, nettools, enum, cycle,
                   detector, detect>>

\* The endpoints a record's foreign_address can hold: an address and a port
\* joined by ":", an IPv6 address bare (netstat on Linux) or in brackets (ss,
\* netstat on Windows).
Endpoints ==
    LET ports == {"80", "443", "51234"}
        v4 == {"8.8.8.8", "192.168.1.5", "127.0.0.1", "93.184.216.34", "10.0.0.1",
               "0.0.0.0"}
        v6 == {"::1", "fe80::1", "2606:4700:4700::1111", "::", "fc00::1",
               "2001:db8::8a2e:370:7334"}
    IN  {a \o ":" \o p : a \in v4 \cup v6, p \in ports}
        \cup {"[" \o a \o "]:" \o p : a \in v6, p \in ports}

\* a script that reads foreign_ip off a record it built
StartForeignIp ==
    /\ Script("foreign_ip")
    /\ Idle

\* NetworkConnection(..., foreign_address=endpoint, ...).foreign_ip
read_foreign_ip(endpoint) ==
    /\ pc = "foreign_ip"
    /\ probe = NoProbe
    /\ probe' = [fn |-> "NetworkConnection.foreign_ip", input |-> endpoint,
                 output |-> foreign_ip(endpoint)]
    /\ UNCHANGED <<pc, runs, clock, host, resolver, cache_file, call, written,
                   last_request, op, closed, platform, monitor, nettools, enum, cycle,
                   detector, detect>>

\* The countries a record can hold: what the resolver and the annotation
\* write, and names in other spellings.
Countries ==
    {"", "Unknown", "Local Network", "Private", "Lookup Error", "Germany",
     "United States", "germany", "DE", " "}

\* a script that classifies a record it built
StartIsForeign ==
    /\ Script("is_foreign")
    /\ Idle

\* conn.is_foreign(local_country) on a record whose country is `country`
read_is_foreign(country, local_country) ==
    /\ pc = "is_foreign"
    /\ probe.fn = ""
    /\ LET conn == [NetworkConnection("TCP", "192.168.1.5:50000",
                                      "93.184.216.34:443", "ESTABLISHED", "")
                        EXCEPT !.country = country]
       IN  probe' = [fn |-> "NetworkConnection.is_foreign",
                     input |-> <<country, local_country>>,
                     output |-> is_foreign(conn, Str(local_country))]
    /\ UNCHANGED <<pc, runs, clock, host, resolver, cache_file, call, written,
                   last_request, op, closed, platform, monitor, nettools, enum, cycle,
                   detector, detect>>

\* geoip._online_lookup(ip_address) while the services answer `api` and `info`
read_online_lookup(api, info) ==
    /\ pc = "_online_lookup"
    /\ probe.fn = ""
    /\ probe' = [fn |-> "GeoIPLookup._online_lookup", input |-> <<api, info>>,
                 output |-> _online_lookup(api, info)]
    /\ UNCHANGED <<pc, runs, clock, host, resolver, cache_file, call, written,
                   last_request, op, closed, platform, monitor, nettools, enum, cycle,
                   detector, detect>>

InitScripts ==
    \/ StartTestSimpleDb
    \/ StartForeignIp
    \/ StartIsForeign
    \/ Script("_online_lookup") /\ Idle
    \/ FirstStart({DefaultInstallation}, {TestAddresses})

NextScripts ==
    \/ \E ip_address \in ProbeAddresses : test_simple_db(ip_address)
    \/ \E endpoint \in Endpoints : read_foreign_ip(endpoint)
    \/ \E country \in Countries, local_country \in Countries :
           read_is_foreign(country, local_country)
    \/ \E ip_address \in PublicAddresses :
           \E api \in ApiResponses(ip_address), info \in InfoResponses(ip_address) :
               read_online_lookup(api, info)
    \/ Next

SpecScripts == InitScripts /\ [][NextScripts]_vars

\* ------------------------------------------------------------------------
\* The enumerator at work: test_ss_tool builds a
\* CrossPlatformNetworkTools and calls get_connections; main builds a
\* NetworkMonitor, whose get_netstat_connections enumerates TCP, then UDP,
\* then resolves every record.
\* ------------------------------------------------------------------------

\* what a get_connections call leaves behind
enumerated(protocol, filter_listening, w) ==
    [protocol |-> protocol, filter_listening |-> filter_listening,
     invoked |-> w.invoked, stdout |-> w.stdout, connections |-> w.connections,
     raised |-> w.raised]

\* a script that calls the enumerator is started on some host
StartEnumerator ==
    /\ Script("enumerator")
    /\ probe = NoProbe
    /\ platform \in Platforms
    /\ NoMonitor

\* main is started on some host that has the built-in table only
StartMonitor ==
    /\ Fresh
    /\ runs = 1
    /\ clock = 0
    /\ installation = [requests |-> FALSE, online |-> TRUE, maxmind |-> FALSE,
                       builtin |-> TRUE]
    /\ addresses = {}
    /\ REQUESTS_AVAILABLE = installation.requests
    /\ cache_file = [kind |-> "absent"]
    /\ peer = None
    /\ probe = NoProbe
    /\ platform \in Platforms
    /\ NoMonitor

\* nettools = CrossPlatformNetworkTools() in the script
NewNetTools ==
    /\ pc = "enumerator"
    /\ nettools = None
    /\ nettools' = CrossPlatformNetworkTools
    /\ UNCHANGED <<pc, runs, clock, host, resolver, cache_file, call, written,
                   last_request, op, closed, probe, platform, monitor, enum, cycle,
                   detector, detect>>

\* CountryDetector(geoip_lookup, default_country)
CountryDetector(default_country) ==
    [default_country |-> default_country, detected_country |-> NoStr,
     public_ip |-> NoStr, detection_method |-> NoStr]

\* NetworkMonitor(geoip, default_country), once the resolver is built: it
\* builds its enumerator and its country detector
NewMonitor(default_country) ==
    /\ pc = "running"
    /\ nettools = None
    /\ nettools' = CrossPlatformNetworkTools
    /\ detector' = CountryDetector(default_country)
    /\ UNCHANGED <<pc, runs, clock, host, resolver, cache_file, call, written,
                   last_request, op, closed, probe, platform, monitor, enum, cycle, detect>>

\* One get_connections call of the script.  A call leaves the enumerator as
\* it was, so the calls are independent and one is followed.
GetConnections(protocol, filter_listening) ==
    /\ pc = "enumerator"
    /\ nettools # None
    /\ enum = NoEnum
    /\ \E w \in get_connections(protocol, filter_listening, Outputs(nettools.os_type)) :
        enum' = enumerated(protocol, filter_listening, w)
    /\ UNCHANGED <<pc, runs, clock, host, resolver, cache_file, call, written,
                   last_request, op, closed, probe, platform, monitor, nettools, cycle,
                   detector, detect>>

\* get_netstat_connections(filter_listening), up to the end of its first
\* get_connections call
EnumerateTcp(filter_listening) ==
    /\ pc = "running"
    /\ nettools # None
    /\ cycle.at = "idle"
    /\ \E w \in get_connections("tcp", filter_listening, Screens(nettools.os_type)) :
        /\ enum' = enumerated("tcp", filter_listening, w)
        /\ cycle' = [at |-> "udp", filter_listening |-> filter_listening,
                     tcp |-> enum', udp |-> NoEnum, connections |-> w.connections,
                     i |-> 0]
    /\ UNCHANGED <<pc, runs, clock, host, resolver, cache_file, call, written,
                   last_request, op, closed, probe, platform, monitor, nettools, detector,
                   detect>>

\* get_netstat_connections goes on: its second get_connections call
EnumerateUdp ==
    /\ pc = "running"
    /\ cycle.at = "udp"
    /\ \E w \in get_connections("udp", cycle.filter_listening,
                                Screens(nettools.os_type)) :
        /\ enum' = enumerated("udp", cycle.filter_listening, w)
        /\ cycle' = [cycle EXCEPT !.at = IF cycle.connections \o w.connections = <<>>
                                         THEN "returned" ELSE "geo",
                                  !.udp = enum',
                                  !.connections = cycle.connections \o w.connections]
    /\ UNCHANGED <<pc, runs, clock, host, resolver, cache_file, call, written,
                   last_request, op, closed, probe, platform, monitor, nettools, detector,
                   detect>>

\* A faulty get_netstat_connections whose loop has no try block of its own:
\* an exception in a lookup ends the loop, and the records are returned as
\* they are.
Annotate_until_it_raises ==
    /\ pc = "running"
    /\ cycle.at = "geo"
    /\ LET i == cycle.i + 1
           conn == cycle.connections[i]
       IN  \E r \in lookup(foreign_ip(conn.foreign_address))
                     \cup {propagated("MemoryError", <<>>)} :
               /\ resolved(foreign_ip(conn.foreign_address), r)
               /\ cycle' = [cycle EXCEPT
                      !.i = IF r.raised = "" THEN i ELSE cycle.i,
                      !.at = IF i = Len(cycle.connections) \/ r.raised # ""
                             THEN "returned" ELSE "geo",
                      !.connections[i] =
                          IF r.raised = ""
                          THEN [conn EXCEPT !.city = r.result[1],
                                            !.country = r.result[2],
                                            !.asn = r.result[3]]
                          ELSE conn]
    /\ UNCHANGED <<pc, runs, clock, host, REQUESTS_AVAILABLE, use_online,
                   city_reader, simple_db, closed, probe, platform, monitor,
                   nettools, enum, detector, detect>>

\* get_netstat_connections goes on: one round of its loop over the records.
\* No statement of the resolver raises an exception that leaves lookup; the
\* call can still end with one the interpreter raises (MemoryError), which
\* is what the except clause of the loop is left with.
Annotate ==
    /\ pc = "running"
    /\ cycle.at = "geo"
    /\ LET i == cycle.i + 1
           conn == cycle.connections[i]
       IN  \E r \in lookup(foreign_ip(conn.foreign_address))
                     \cup {propagated("MemoryError", <<>>)} :
               /\ resolved(foreign_ip(conn.foreign_address), r)
               /\ cycle' = [cycle EXCEPT
                      !.i = i,
                      !.at = IF i = Len(cycle.connections) THEN "returned" ELSE "geo",
                      !.connections[i] =
                          IF r.raised = ""
                          THEN [conn EXCEPT !.city = r.result[1],
                                            !.country = r.result[2],
                                            !.asn = r.result[3]]
                          ELSE [conn EXCEPT !.city = "", !.country = "Lookup Error",
                                            !.asn = "Lookup Error"]]
    /\ UNCHANGED <<pc, runs, clock, host, REQUESTS_AVAILABLE, use_online,
                   city_reader, simple_db, closed, probe, platform, monitor, nettools, enum,
                   detector, detect>>

InitNet ==
    \/ StartEnumerator
    \/ StartMonitor

NextNet ==
    \/ NewNetTools
    \/ NewMonitor("United States")
    \/ \E protocol \in {"tcp", "udp"}, filter_listening \in BOOLEAN :
           GetConnections(protocol, filter_listening)
    \/ Construct("ok")
    \/ \E filter_listening \in BOOLEAN : EnumerateTcp(filter_listening)
    \/ EnumerateUdp
    \/ Annotate

SpecNet == InitNet /\ [][NextNet]_vars

\* ------------------------------------------------------------------------
\* CountryDetector: the home country
\* ------------------------------------------------------------------------

\* calls of detect_country in one run
MaxDetections == 2

\* the services of _get_public_ip and of _get_country_online
ip_services ==
    <<"https://api.ipify.org?format=text", "https://ipinfo.io/ip",
      "https://icanhazip.com", "https://ident.me", "https://api.my-ip.io/ip">>

country_services ==
    <<"https://ipinfo.io/json", "https://ip-api.com/json">>

\* `if x:` on a str or None
truthy(x) ==
    ~x.none /\ x.str # ""

\* _get_public_ip when the services up to `first` give no address and
\* service `first` answers `ip`; first = 0 when none of them gives one.
\* A query is the service asked and the answer taken from it, "" for none.
_get_public_ip(first, ip) ==
    LET asked(n) == [i \in 1..n |-> [url |-> ip_services[i],
                                      answer |-> IF i = first THEN ip ELSE ""]]
    IN  IF ~REQUESTS_AVAILABLE THEN [ip |-> NoStr, queries |-> <<>>]
        ELSE IF first = 0 THEN [ip |-> NoStr, queries |-> asked(Len(ip_services))]
        ELSE [ip |-> Str(ip), queries |-> asked(first)]

\* _get_country_online when its services come up with the countries
\* `answers`, "" for a service that fails or has none
_get_country_online(answers) ==
    LET good(i) == answers[i] # "" /\ Len(answers[i]) > 2
        asked(n) == [i \in 1..n |-> [url |-> country_services[i],
                                      answer |-> answers[i]]]
    IN  IF ~REQUESTS_AVAILABLE THEN [country |-> NoStr, queries |-> <<>>]
        ELSE IF good(1) THEN [country |-> Str(answers[1]), queries |-> asked(1)]
        ELSE IF good(2) THEN [country |-> Str(answers[2]), queries |-> asked(2)]
        ELSE [country |-> NoStr, queries |-> asked(2)]

\* A faulty test that takes a continent for a country.
vague_but_for_continents(country) ==
    country \in {"Unknown", "Local Network", "Private"}

\* the countries detect_country does not take for an answer
vague(country) ==
    country \in {"Unknown", "Local Network", "Private", "Europe", "Asia"}

\* what the world can answer to a detection
PublicIps == {"8.8.8.8", "185.70.41.130", "192.168.1.1"}
CountryAnswers == {"", "DE", "Germany", "Europe"}

\* A faulty detect_country that tags every result as auto-detected.
detected_untagged(country, public_ip, method, queries, lookups) ==
    /\ detector' = [detector EXCEPT !.detected_country = Str(country),
                                    !.public_ip = public_ip,
                                    !.detection_method = Str("auto-detected")]
    /\ detect' = [n |-> detect.n + 1, op |-> "detect_country", returned |-> country,
                  queries |-> queries, lookups |-> lookups]

\* what a detect_country call that ends this way leaves in the detector and
\* in the books
detected(country, public_ip, method, queries, lookups) ==
    /\ detector' = [detector EXCEPT !.detected_country = Str(country),
                                    !.public_ip = public_ip,
                                    !.detection_method = Str(method)]
    /\ detect' = [n |-> detect.n + 1, op |-> "detect_country", returned |-> country,
                  queries |-> queries, lookups |-> lookups]

\* A faulty detect_country that detects again on every call.
detect_country_every_time(first, ip, answers) ==
    LET pub == _get_public_ip(first, ip)
        online == _get_country_online(answers)
    IN  /\ IF truthy(online.country) /\ ~vague(online.country.str)
           THEN detected(online.country.str, detector.public_ip, "auto-detected",
                         pub.queries \o online.queries, <<>>)
           ELSE detected(detector.default_country, detector.public_ip, "default",
                         pub.queries \o online.queries, <<>>)
        /\ UNCHANGED <<resolver, cache_file, call, written, last_request, op>>

\* CountryDetector.detect_country
detect_country(first, ip, answers) ==
    IF truthy(detector.detected_country)
    THEN /\ detect' = [n |-> detect.n + 1, op |-> "detect_country",
                       returned |-> detector.detected_country.str,
                       queries |-> <<>>, lookups |-> <<>>]
         /\ UNCHANGED <<detector, resolver, cache_file, call, written, last_request, op>>
    ELSE LET pub == _get_public_ip(first, ip)
             online == _get_country_online(answers)
             second(queries, lookups) ==
                 IF truthy(online.country) /\ ~vague(online.country.str)
                 THEN detected(online.country.str, detector.public_ip,
                               "auto-detected", queries \o online.queries, lookups)
                 ELSE detected(detector.default_country, detector.public_ip,
                               "default", queries \o online.queries, lookups)
         IN  IF ~truthy(pub.ip)
             THEN /\ second(pub.queries, <<>>)
                  /\ UNCHANGED <<resolver, cache_file, call, written, last_request, op>>
             ELSE \E r \in lookup(pub.ip.str) :
                      /\ resolved(pub.ip.str, r)
                      /\ UNCHANGED <<REQUESTS_AVAILABLE, use_online, city_reader, simple_db>>
                      /\ IF r.raised # ""
                         THEN detected(detector.default_country, detector.public_ip,
                                       "default", pub.queries, <<pub.ip.str>>)
                         ELSE IF r.result[2] # "" /\ ~vague(r.result[2])
                         THEN detected(r.result[2], pub.ip, "auto-detected",
                                       pub.queries, <<pub.ip.str>>)
                         ELSE second(pub.queries, <<pub.ip.str>>)

\* a caller of the detector (NetworkMonitor.initialize is one) calls
\* detect_country
DetectCountry(first, ip, answers) ==
    /\ pc = "running"
    /\ detector # None
    /\ detect.n < MaxDetections
    /\ detect_country(first, ip, answers)
    /\ UNCHANGED <<pc, runs, clock, host, closed, probe, platform, monitor, nettools, enum, cycle>>

\* CountryDetector.set_manual_country(country)
SetManualCountry(country) ==
    /\ pc = "running"
    /\ detector # None
    /\ detector' = [detector EXCEPT !.detected_country = Str(country),
                                    !.detection_method = Str("manual")]
    /\ detect' = [detect EXCEPT !.op = "set_manual_country", !.returned = "",
                                !.queries = <<>>, !.lookups = <<>>]
    /\ UNCHANGED <<pc, runs, clock, host, resolver, cache_file, call, written,
                   last_request, op, closed, probe, platform, monitor, nettools, enum, cycle>>

\* A faulty main that keeps --country to itself and tells the detector
\* nothing.
Override_untold(country) ==
    /\ pc = "running"
    /\ detector # None
    /\ monitor.at = "main"
    /\ truthy(country)
    /\ monitor' = [monitor EXCEPT !.at = "started", !.args_country = country,
                                  !.local_country = country]
    /\ UNCHANGED <<pc, runs, clock, host, resolver, cache_file, call, written,
                   last_request, op, closed, probe, platform, nettools, enum, cycle,
                   detector, detect>>

\* main with --country: set_manual_country, and local_country is the
\* country given
Override(country) ==
    /\ pc = "running"
    /\ detector # None
    /\ monitor.at = "main"
    /\ truthy(country)
    /\ detector' = [detector EXCEPT !.detected_country = country,
                                    !.detection_method = Str("manual")]
    /\ detect' = [detect EXCEPT !.op = "set_manual_country", !.returned = "",
                                !.queries = <<>>, !.lookups = <<>>]
    /\ monitor' = [monitor EXCEPT !.at = "started", !.args_country = country,
                                  !.local_country = country]
    /\ UNCHANGED <<pc, runs, clock, host, resolver, cache_file, call, written,
                   last_request, op, closed, probe, platform, nettools, enum, cycle>>

\* main without it: NetworkMonitor.initialize, where local_country is what
\* detect_country returns
Initialize(country, first, ip, answers) ==
    /\ pc = "running"
    /\ detector # None
    /\ monitor.at = "main"
    /\ ~truthy(country)
    /\ detect.n < MaxDetections
    /\ detect_country(first, ip, answers)
    /\ monitor' = [monitor EXCEPT !.at = "started", !.args_country = country,
                                  !.local_country = Str(detect'.returned)]
    /\ UNCHANGED <<pc, runs, clock, host, closed, probe, platform, nettools, enum, cycle>>

\* main is started with some --default-country, on a host with or without
\* the requests library
StartCountry ==
    /\ Fresh
    /\ runs = 1
    /\ clock = 0
    /\ installation \in {i \in Installations : ~i.maxmind /\ i.builtin}
    /\ addresses = {}
    /\ REQUESTS_AVAILABLE = installation.requests
    /\ cache_file = [kind |-> "absent"]
    /\ peer = None
    /\ probe = NoProbe
    /\ platform = [os_type |-> "linux", tools |-> {"netstat", "ss"}]
    /\ NoMonitor

NextCountry ==
    \/ Construct("ok")
    \/ \E default_country \in {"United States", ""} : NewMonitor(default_country)
    \/ \E first \in 0..Len(ip_services), ip \in PublicIps,
          answers \in [DOMAIN country_services -> CountryAnswers] :
           DetectCountry(first, ip, answers)
    \/ \E country \in {"France", ""} : SetManualCountry(country)
    \/ \E country \in {NoStr, Str(""), Str("France")} :
           \/ Override(country)
           \/ \E first \in 0..Len(ip_services), ip \in PublicIps,
                 answers \in [DOMAIN country_services -> CountryAnswers] :
                  Initialize(country, first, ip, answers)

SpecCountry == StartCountry /\ [][NextCountry]_vars

\* ------------------------------------------------------------------------
\* main's monitoring mode: NetworkMonitor.monitor_continuous.  `monitor.at`
\* is where main is: in main before the home country is settled ("main"),
\* about to call monitor_continuous ("started"), in the try block of an
\* iteration before and in get_netstat_connections ("connections"), at its
\* time.sleep ("sleep"), in the except Exception clause of the iteration
\* ("retry"); after the break ("stopped"), after the outer except clause
\* ("failed"), and in main's except KeyboardInterrupt clause ("interrupted").
\* ------------------------------------------------------------------------

\* iterations of the loop in one run
MaxCycles == 2
\* interrupt signals delivered to one run
MaxSignals == 1

\* --interval is parsed with type=int and not validated
Intervals == {-1, 5}

\* what the loop leaves alone
beside_the_loop ==
    <<pc, runs, clock, host, resolver, cache_file, written, last_request,
      op, closed, probe, platform, nettools, detector, detect>>

\* the next iteration of `while True`; the records of the calls are those
\* of the iteration that runs
next_cycle ==
    /\ monitor.cycles < MaxCycles
    /\ monitor' = [monitor EXCEPT !.at = "connections", !.cycles = @ + 1,
                                  !.foreign = 0]
    /\ cycle' = NoCycle
    /\ enum' = NoEnum
    /\ call' = NoCall

\* main calls monitor_continuous(args.interval, not args.show_listening),
\* which enters its loop
MonitorContinuous(refresh_interval, filter_listening) ==
    /\ pc = "running"
    /\ monitor.at = "started"
    /\ monitor' = [monitor EXCEPT !.at = "connections", !.cycles = 1,
                                  !.refresh_interval = refresh_interval,
                                  !.filter_listening = filter_listening]
    /\ cycle' = NoCycle
    /\ UNCHANGED <<beside_the_loop, enum, call>>

\* `foreign = sum(1 for conn in connections if conn.is_foreign(self.local_country))`
\* of display_connections_rich and display_connections_simple
foreign_count(connections, local_country) ==
    Cardinality({i \in DOMAIN connections :
                    is_foreign(connections[i], local_country)})

\* get_netstat_connections has returned, and with it the records of its
\* calls are gone: the records with their summary, or the line "No active
\* connections found.", are printed, then the footer; an exception in there
\* (a terminal that is gone, a record the table cannot render) is taken by
\* the except Exception clause of the iteration
Display(raised) ==
    /\ pc = "running"
    /\ monitor.at = "connections"
    /\ cycle.at = "returned"
    /\ monitor' = [monitor EXCEPT
                      !.at = IF raised = "" THEN "sleep" ELSE "retry",
                      !.foreign = IF raised = ""
                                  THEN foreign_count(cycle.connections,
                                                     monitor.local_country)
                                  ELSE 0]
    /\ cycle' = [cycle EXCEPT !.tcp = NoEnum, !.udp = NoEnum]
    /\ enum' = NoEnum
    /\ UNCHANGED <<beside_the_loop, call>>

\* time.sleep(refresh_interval) at the end of the try block; a negative
\* length makes it raise ValueError
Sleep ==
    /\ pc = "running"
    /\ monitor.at = "sleep"
    /\ IF monitor.refresh_interval < 0
       THEN /\ monitor' = [monitor EXCEPT !.at = "retry"]
            /\ UNCHANGED <<enum, call, cycle>>
       ELSE next_cycle
    /\ UNCHANGED beside_the_loop

\* the except Exception clause of the iteration: the error is logged and
\* printed, then time.sleep(refresh_interval); an exception of that sleep
\* leaves the loop for the outer except clause, where monitor_continuous
\* logs it and returns
Retry ==
    /\ pc = "running"
    /\ monitor.at = "retry"
    /\ IF monitor.refresh_interval < 0
       THEN /\ monitor' = [monitor EXCEPT !.at = "failed"]
            /\ UNCHANGED <<enum, call, cycle>>
       ELSE next_cycle
    /\ UNCHANGED beside_the_loop

\* get_connections when a KeyboardInterrupt arrives during one of its
\* commands.  The trial of `ss ... -p` runs under a bare `except:`, which
\* takes the interrupt for a failed trial, and the call goes on without -p;
\* every other command runs under except clauses for Exception, which the
\* interrupt passes, and it leaves the call.
get_connections_interrupted(protocol, filter_listening, stdouts) ==
    LET is_trial(w, i) ==
            /\ i < Len(w.invoked)
            /\ w.invoked[i].cmd[1] = "ss"
            /\ w.invoked[i + 1].cmd[1] = "ss"
            /\ w.invoked[i].cmd = w.invoked[i + 1].cmd \o <<"-p">>
                   \/ w.invoked[i].cmd = w.invoked[i + 1].cmd
    IN  UNION {{IF is_trial(w, i)
                THEN [w EXCEPT !.invoked[i].outcome = "KeyboardInterrupt"]
                ELSE [connections |-> <<>>, raised |-> "KeyboardInterrupt",
                      invoked |-> [j \in 1..i |->
                                      IF j = i
                                      THEN [w.invoked[j] EXCEPT
                                                !.outcome = "KeyboardInterrupt"]
                                      ELSE w.invoked[j]],
                      stdout |-> <<>>] :
                  i \in {k \in DOMAIN w.invoked :
                             is_trial(w, k) => w.invoked[k].outcome = "TimeoutExpired"}} :
               w \in get_connections(protocol, filter_listening, stdouts)}

\* an interrupt signal arrives while a get_connections call of the iteration
\* runs a command
InterruptEnumeration ==
    /\ pc = "running"
    /\ monitor.at = "connections"
    /\ cycle.at \in {"idle", "udp"}
    /\ monitor.signals < MaxSignals
    /\ LET protocol == IF cycle.at = "idle" THEN "tcp" ELSE "udp" IN
       \E w \in get_connections_interrupted(protocol, monitor.filter_listening,
                                            Screens(nettools.os_type)) :
           /\ enum' = enumerated(protocol, monitor.filter_listening, w)
           /\ IF w.raised = "KeyboardInterrupt"
              THEN /\ cycle' = cycle
                   /\ monitor' = [monitor EXCEPT !.at = "stopped", !.signals = @ + 1]
              ELSE /\ monitor' = [monitor EXCEPT !.signals = @ + 1]
                   /\ cycle' =
                          IF protocol = "tcp"
                          THEN [at |-> "udp",
                                filter_listening |-> monitor.filter_listening,
                                tcp |-> enum', udp |-> NoEnum,
                                connections |-> w.connections, i |-> 0]
                          ELSE [cycle EXCEPT
                                   !.at = IF cycle.connections \o w.connections = <<>>
                                          THEN "returned" ELSE "geo",
                                   !.udp = enum',
                                   !.connections = cycle.connections \o w.connections]
    /\ UNCHANGED <<beside_the_loop, call>>

\* an interrupt signal arrives while the iteration is between commands, in a
\* lookup, in the display or in its sleep: the except KeyboardInterrupt
\* clause of the iteration breaks the loop.  In the sleep of the except
\* Exception clause no clause of monitor_continuous takes it, and it arrives
\* in main.
Interrupt ==
    /\ pc = "running"
    /\ monitor.at \in {"connections", "sleep", "retry"}
    /\ monitor.signals < MaxSignals
    /\ monitor' = [monitor EXCEPT
                      !.at = IF monitor.at = "retry" THEN "interrupted" ELSE "stopped",
                      !.signals = @ + 1]
    /\ UNCHANGED <<beside_the_loop, enum, call, cycle>>

\* the hosts the loop is followed on: Windows, a Linux that has ss only, and
\* a Linux that has both tools
StartLoop ==
    /\ StartMonitor
    /\ platform \in {[os_type |-> "windows", tools |-> {"netstat"}],
                     [os_type |-> "linux", tools |-> {"ss"}],
                     [os_type |-> "linux", tools |-> {"netstat", "ss"}]}

\* main on such a host, up to the end of its run in monitoring mode
NextLoop ==
    \/ Construct("ok")
    \/ NewMonitor("United States")
    \/ Initialize(NoStr, 0, "8.8.8.8", <<"", "">>)
    \/ \E refresh_interval \in Intervals, filter_listening \in BOOLEAN :
           MonitorContinuous(refresh_interval, filter_listening)
    \/ monitor.at = "connections" /\ EnumerateTcp(monitor.filter_listening)
    \/ monitor.at = "connections" /\ EnumerateUdp
    \/ monitor.at = "connections" /\ Annotate
    \/ \E raised \in {"", "Exception"} : Display(raised)
    \/ Sleep
    \/ Retry
    \/ InterruptEnumeration
    \/ Interrupt
    \/ monitor.at \in {"stopped", "failed"} /\ \E io \in SaveOutcomes : Exit("return", io)
    \/ monitor.at = "interrupted" /\ \E io \in SaveOutcomes : Exit("interrupt", io)

SpecLoop == StartLoop /\ [][NextLoop]_vars

\* ------------------------------------------------------------------------
\* Properties
\* ------------------------------------------------------------------------

\* the sentinels of the specification and the result of a final miss
Sentinels == {"Unknown", "Private", "Local Network"}

NoData == <<"", "Unknown", "">>

\* a country the specification lets a tier accept
trusted(country) ==
    country # "" /\ country \notin Sentinels

\* The addresses the specification calls non-public: RFC1918, 127/8, ::1,
\* and the prefixes fe80: and fc00:.
claimed_local(ip) ==
    \/ /\ is_ipv4(ip)
       /\ LET o == split(ip, ".")
              a == int(o[1])
              b == int(o[2])
          IN  \/ a = 10
              \/ a = 172 /\ b \in 16..31
              \/ a = 192 /\ b = 168
              \/ a = 127
    \/ ip = "::1"
    \/ startswith(ip, "fe80:")
    \/ startswith(ip, "fc00:")

\* this step is a call of lookup for ip
Called(ip) ==
    call'.n = call.n + 1 /\ call'.ip = ip

\* the call consulted nothing: no cache answered, no tier ran, no request
nothing_consulted(c) ==
    c.hit = "" /\ c.trace = <<>> /\ c.requests = <<>>

\* the triple a cache holds for ip
cache_entry(ip) ==
    IF ip \in DOMAIN persistent_cache
    THEN <<persistent_cache[ip].city, persistent_cache[ip].country,
           persistent_cache[ip].asn>>
    ELSE online_cache[ip]

\* a consulted tier declined: it ended with an error or without a country
\* the specification accepts
declined(t) ==
    t.raised # "" \/ ~trusted(t.country)

TierRank ==
    ("maxmind" :> 1) @@ ("simple" :> 2) @@ ("online" :> 3)

\* C1: every entry of the in-memory and of the persistent cache has a
\* country that is non-empty and none of "Unknown", "Private", "Local Network".
\* Stated as the specification has it; the online block caches a result whose
\* country is empty.
C1_cached_country_is_trusted ==
    /\ \A ip \in DOMAIN persistent_cache : trusted(persistent_cache[ip].country)
    /\ \A ip \in DOMAIN online_cache : trusted(online_cache[ip][2])

\* C2 as the specification has it: a call for an address that is RFC1918,
\* loopback or fe80:/fc00: returns ("", "Private", "Local Network") and
\* consults nothing.
C2_local_returns_private ==
    call.n > 0 /\ claimed_local(call.ip)
        => call.result = <<"", "Private", "Local Network">> /\ nothing_consulted(call)

\* C2: a call for an address that is RFC1918, loopback or fe80:/fc00:
\* consults no cache, database, table or service; it returns
\* ("", "Private", "Local Network"), except that for the texts "127.0.0.1"
\* and "::1" it returns ("", "", "").
C2_local_short_circuits ==
    call.n > 0 /\ claimed_local(call.ip)
        => /\ nothing_consulted(call)
           /\ call.raised = ""
           /\ call.result = IF call.ip \in {"127.0.0.1", "::1"}
                            THEN <<"", "", "">>
                            ELSE <<"", "Private", "Local Network">>

C2_witness ==
    /\ call.n > 0
    /\ call.ip \in {"172.16.0.1", "172.31.255.254"}
    /\ call.result = <<"", "Private", "Local Network">>

\* C3: a call of lookup for a public address that has a cache entry returns
\* that entry's (city, country, organization) and consults no tier: no
\* database query, no table scan, no request.
C3_cache_hit_returns_entry ==
    [][\A ip \in addresses :
          (/\ Called(ip)
           /\ ~claimed_local(ip)
           /\ ip \in DOMAIN persistent_cache \cup DOMAIN online_cache)
          => /\ call'.result = cache_entry(ip)
             /\ call'.raised = ""
             /\ call'.trace = <<>>
             /\ call'.requests = <<>>]_vars

C3_witness ==
    /\ call.n > 1
    /\ call.hit = "persistent"
    /\ call.ip \in DOMAIN persistent_cache
    /\ call.result = cache_entry(call.ip)

\* C4: within one call the tiers run in the order cache, local database,
\* static table, networked service, and a tier runs only if every earlier one
\* declined: a tier is consulted only when the caches have no entry, the
\* consulted tiers are in that order, every tier but the last consulted one
\* declined, and requests are sent only by the networked tier.
C4_tier_order ==
    [][\A ip \in addresses : Called(ip) =>
          LET t == call'.trace IN
          /\ t # <<>> => ip \notin DOMAIN persistent_cache \cup DOMAIN online_cache
          /\ call'.hit # "" => t = <<>>
          /\ \A i, j \in DOMAIN t : i < j => TierRank[t[i].tier] < TierRank[t[j].tier]
          /\ \A i \in DOMAIN t : i < Len(t) => declined(t[i])
          /\ call'.requests # <<>> => t # <<>> /\ t[Len(t)].tier = "online"]_vars

C4_witness ==
    /\ call.n > 0
    /\ Len(call.trace) = 3
    /\ call.trace[1].tier = "maxmind"
    /\ call.trace[2].tier = "simple"
    /\ call.trace[3].tier = "online"

\* C5 as the specification has it: when no cache answers and every tier the
\* call consults declines, the call returns ("", "Unknown", "") and leaves
\* both caches as they were.  The online block caches and returns a result
\* whose country is empty (see C1).
C5_all_decline_returns_unknown ==
    [][\A ip \in addresses :
          (/\ Called(ip)
           /\ ~claimed_local(ip)
           /\ ~is_placeholder(ip)
           /\ call'.hit = ""
           /\ \A i \in DOMAIN call'.trace : declined(call'.trace[i]))
          => /\ call'.result = NoData
             /\ persistent_cache' = persistent_cache
             /\ online_cache' = online_cache]_vars

\* a networked request for ip went out less than online_lookup_delay ago
recent_request(ip) ==
    ip \in DOMAIN last_request /\ clock - last_request[ip] < online_lookup_delay

\* C6 as the specification has it: a call for an address that had a networked
\* request less than online_lookup_delay ago returns ("", "Unknown", "") and
\* sends no request.
C6_second_call_unknown ==
    [][\A ip \in addresses :
          Called(ip) /\ recent_request(ip)
          => call'.result = NoData /\ call'.requests = <<>>]_vars

\* C6: a call for an address that had a networked request less than
\* online_lookup_delay ago sends no request; it returns ("", "Unknown", "")
\* unless the earlier request's result was cached, and then it returns the
\* cached triple.
C6_rate_limited ==
    [][\A ip \in addresses :
          Called(ip) /\ recent_request(ip)
          => /\ call'.requests = <<>>
             /\ call'.raised = ""
             /\ ip \notin DOMAIN written => call'.result = NoData
             /\ ip \in DOMAIN written => call'.result = written[ip]]_vars

C6_witness ==
    /\ call.n > 1
    /\ call.limited
    /\ call.ip \in DOMAIN last_request
    /\ call.result = NoData
    /\ call.requests = <<>>

\* C7: a call for an address that an earlier call of the same run wrote a
\* cache entry for returns the same (city, country, organization) as that
\* call and performs no database, table or network access.
C7_second_lookup_identical ==
    [][\A ip \in addresses :
          Called(ip) /\ ip \in DOMAIN written
          => /\ call'.result = written[ip]
             /\ call'.trace = <<>>
             /\ call'.requests = <<>>]_vars

C7_witness ==
    /\ call.n > 1
    /\ call.ip \in DOMAIN written
    /\ ~call.wrote
    /\ call.result = written[call.ip]
    /\ written[call.ip][3] # ""

\* the age an entry of the file had when the cache was loaded
age_at_load(ip) ==
    op.at - cache_file.cache[ip].timestamp

\* C8: after a successful _save_cache and a successful _load_cache, every
\* entry of the file younger than 7 days is in the in-memory cache with
\* unchanged city, country and organization, and every entry older than 7
\* days is absent from it.
C8_round_trip ==
    op.name = "load" /\ op.io = "ok" /\ cache_file.kind = "pickle"
        => \A ip \in DOMAIN cache_file.cache :
              /\ age_at_load(ip) < timedelta_days(7)
                    => /\ ip \in DOMAIN persistent_cache
                       /\ persistent_cache[ip] = cache_file.cache[ip]
              /\ age_at_load(ip) > timedelta_days(7)
                    => ip \notin DOMAIN persistent_cache

C8_witness ==
    /\ op.name = "load" /\ op.io = "ok" /\ cache_file.kind = "pickle"
    /\ \E ip \in DOMAIN cache_file.cache :
          age_at_load(ip) < timedelta_days(7) /\ ip \in DOMAIN persistent_cache
    /\ \E ip \in DOMAIN cache_file.cache :
          age_at_load(ip) > timedelta_days(7) /\ ip \notin DOMAIN persistent_cache

\* C9: once main has left its try block, on whichever way, close was
\* called; and after a close whose save did not fail the cache file holds
\* every entry of the in-memory caches.
C9_close_flushes ==
    op.name = "exit"
        => /\ closed
           /\ op.io = "ok"
                => /\ cache_file.kind = "pickle"
                   /\ \A ip \in DOMAIN persistent_cache :
                         /\ ip \in DOMAIN cache_file.cache
                         /\ cache_file.cache[ip] = persistent_cache[ip]
                   /\ \A ip \in DOMAIN online_cache :
                         /\ ip \in DOMAIN cache_file.cache
                         /\ online_cache[ip] = <<cache_file.cache[ip].city,
                                                 cache_file.cache[ip].country,
                                                 cache_file.cache[ip].asn>>

C9_witness ==
    /\ op.name = "exit" /\ op.io = "ok" /\ closed
    /\ Cardinality(DOMAIN persistent_cache) = 2
    /\ DOMAIN cache_file.cache = DOMAIN persistent_cache

\* C10: a call of lookup never ends with an exception: it returns a
\* (city, country, organization) triple, and a tier that ended with an error
\* is followed by the next tier the resolver has.
C10_never_raises ==
    call.n > 0
        => /\ call.raised = ""
           /\ Len(call.result) = 3
           /\ \A i \in DOMAIN call.trace :
                 call.trace[i].raised # "" /\ i = Len(call.trace)
                    => /\ simple_db = None
                       /\ ~(REQUESTS_AVAILABLE /\ use_online) \/ call.limited

C10_witness ==
    /\ call.n > 0
    /\ call.raised = ""
    /\ Len(call.trace) = 3
    /\ call.trace[1].raised = "ValueError"
    /\ call.result = NoData

\* the rows of the table whose interval holds the address ip
holders(ip) ==
    {i \in DOMAIN ip_ranges :
        /\ int_le(ipv4_int(ip_ranges[i].start), ipv4_int(ip))
        /\ int_le(ipv4_int(ip), ipv4_int(ip_ranges[i].end))}

\* what row i of the table says
attribution(i) ==
    <<ip_ranges[i].city, ip_ranges[i].country, ip_ranges[i].org>>

\* C11 as the specification has it: no two rows of the static table overlap,
\* so an address is held by at most one row and every row that holds it has
\* its attribution returned.  The row 54.36.0.0-54.39.255.255 (OVH) lies
\* inside the row 54.0.0.0-54.255.255.255 (Amazon) that precedes it.
C11_rows_disjoint ==
    probe.fn = "SimpleGeoDatabase.lookup" /\ is_ipv4(probe.input)
        => \A i \in holders(probe.input) :
              /\ \A j \in holders(probe.input) : j = i
              /\ probe.output = attribution(i)

\* C12: the static table answers an IPv4 address with the attribution of the
\* first row whose interval holds it, and with ("", "Unknown", "") when no
\* row holds it or the text is no IPv4 literal; a resolver without MaxMind
\* databases and without a cache entry for it resolves 8.8.8.8 to
\* ("Mountain View", "United States", "Google LLC") from the table.
C12_first_row_wins ==
    /\ probe.fn = "SimpleGeoDatabase.lookup"
          => probe.output =
                IF is_ipv4(probe.input) /\ holders(probe.input) # {}
                THEN attribution(CHOOSE i \in holders(probe.input) :
                                    \A j \in holders(probe.input) : i <= j)
                ELSE NoData
    /\ call.n > 0 /\ call.ip = "8.8.8.8" /\ ~city_reader /\ call.hit = ""
          => /\ call.result = <<"Mountain View", "United States", "Google LLC">>
             /\ call.trace = <<[tier |-> "simple", raised |-> "",
                                country |-> "United States"]>>
             /\ call.requests = <<>>

C12_witness ==
    /\ probe.fn = "SimpleGeoDatabase.lookup"
    /\ is_ipv4(probe.input)
    /\ Cardinality(holders(probe.input)) > 1
    /\ probe.output = <<"Seattle", "United States", "Amazon.com Inc">>

\* the position of the last ":" of an endpoint
last_colon(endpoint) ==
    CHOOSE k \in 1..Len(endpoint) :
        /\ SubSeq(endpoint, k, k) = ":"
        /\ \A j \in (k + 1)..Len(endpoint) : SubSeq(endpoint, j, j) # ":"

\* an endpoint with its trailing :port removed, and the brackets of a
\* bracketed IPv6 address with it
without_port(endpoint) ==
    LET a == SubSeq(endpoint, 1, last_colon(endpoint) - 1) IN
    IF startswith(a, "[") THEN SubSeq(a, 2, Len(a) - 1) ELSE a

\* C19 as the specification has it: foreign_ip of an address:port endpoint is
\* the address with exactly the trailing :port removed, for IPv4, bracketed
\* IPv6 and bare IPv6 endpoints alike.  For a bare IPv6 endpoint the code
\* returns the text before the first ":".
C19_foreign_ip_strips_port ==
    probe.fn = "NetworkConnection.foreign_ip"
        => probe.output = without_port(probe.input)

\* a tool handed its output to the call: the last command run ended well
delivered(e) ==
    e.invoked # <<>> /\ e.invoked[Len(e.invoked)].outcome = "ok"

\* the positions of a call's log at which `tool` was run
runs_of(tool, e) ==
    {i \in DOMAIN e.invoked : e.invoked[i].cmd[1] = tool}

\* `tool` is in the list of the available tools
available(tool) ==
    \E i \in DOMAIN nettools.available_tools : nettools.available_tools[i] = tool

\* a record as the enumerator made it, before it was resolved
unannotated(conn) ==
    [conn EXCEPT !.city = "", !.country = "", !.asn = ""]

\* C13: get_connections never raises; when no tool delivers output for a
\* protocol (non-zero exit, missing binary, timeout, no tool available) the
\* call returns the empty list; and get_netstat_connections runs both
\* enumerations whatever the first one did and returns the records of both,
\* TCP first.
C13_failure_is_contained ==
    /\ enum.raised = ""
    /\ (enum.protocol # "" /\ ~delivered(enum)) => enum.connections = <<>>
    /\ cycle.at \in {"geo", "returned"} =>
        /\ cycle.tcp.protocol = "tcp" /\ cycle.tcp.raised = ""
        /\ cycle.udp.protocol = "udp" /\ cycle.udp.raised = ""
        /\ nettools.available_tools # <<>> =>
               cycle.tcp.invoked # <<>> /\ cycle.udp.invoked # <<>>
        /\ [i \in DOMAIN cycle.connections |-> unannotated(cycle.connections[i])]
               = cycle.tcp.connections \o cycle.udp.connections

\* the TCP enumeration failed with every tool it tried, the UDP enumeration
\* delivered, and get_netstat_connections returned the UDP records
C13_witness ==
    /\ cycle.at = "returned"
    /\ cycle.tcp.invoked # <<>> /\ ~delivered(cycle.tcp)
    /\ delivered(cycle.udp)
    /\ cycle.udp.connections # <<>>
    /\ Len(cycle.connections) = Len(cycle.udp.connections)

\* C14: on the Unix family a call runs netstat first when netstat is
\* available; it runs ss only when netstat is not available or the netstat
\* run of this call failed; and when the netstat run succeeds nothing else is
\* run and the result is what the netstat parser made of the output, even if
\* that is empty.
C14_netstat_first ==
    (enum.protocol # "" /\ nettools.os_type # "windows") =>
        /\ available("netstat") => 1 \in runs_of("netstat", enum)
        /\ \A i \in runs_of("ss", enum) :
               \/ ~available("netstat")
               \/ i > 1 /\ 1 \in runs_of("netstat", enum)
                        /\ enum.invoked[1].outcome # "ok"
        /\ (1 \in runs_of("netstat", enum) /\ enum.invoked[1].outcome = "ok") =>
               /\ Len(enum.invoked) = 1
               /\ enum.connections = parse_lines("netstat", enum.protocol,
                                                 enum.filter_listening, enum.stdout)

\* both tools are available, netstat printed lines none of which gave a
\* record, and the call returned the empty list without running ss
C14_witness ==
    /\ enum.protocol # ""
    /\ nettools.os_type # "windows"
    /\ available("netstat") /\ available("ss")
    /\ enum.invoked[1].outcome = "ok"
    /\ enum.stdout # <<>>
    /\ enum.connections = <<>>

\* C15 as the specification has it: a get_connections call runs no capability
\* probe, that is, no command besides the one enumeration command of each
\* tool it uses.  The ss parser first runs its command with -p to see
\* whether process information can be had.
C15_no_probe_in_calls ==
    \A tool \in {"netstat", "ss"} : Cardinality(runs_of(tool, enum)) <= 1

\* C15, amended: the list of available tools never changes once the
\* enumerator is built, and no call runs an availability probe (--version or
\* -h); a call runs netstat at most once, and ss either not at all or twice:
\* the trial with -p, then the enumeration.
C15_availability_probed_once ==
    [][/\ nettools # None => nettools' = nettools
       /\ \A i \in DOMAIN enum'.invoked :
              \A j \in DOMAIN enum'.invoked[i].cmd :
                  enum'.invoked[i].cmd[j] \notin {"--version", "-h"}
       /\ Cardinality(runs_of("netstat", enum')) <= 1
       /\ Cardinality(runs_of("ss", enum')) \in {0, 2}
       /\ \A i \in runs_of("ss", enum') :
              i + 1 \in runs_of("ss", enum') =>
                  enum'.invoked[i].cmd[Len(enum'.invoked[i].cmd)] = "-p"]_vars

\* a call fell back from a failed netstat run to ss, whose trial with -p
\* did not exit with 0
C15_witness ==
    /\ Len(enum.invoked) = 3
    /\ enum.invoked[2].outcome # "ok"
    /\ enum.invoked[3].outcome = "ok"
    /\ nettools.available_tools = <<"netstat", "ss">>

\* C16: with filter_listening (include_listening = false), no record that
\* get_connections returns, on the Windows, the Unix netstat or the ss path,
\* has a state that upper-cases to LISTEN or LISTENING; the same holds for
\* the records get_netstat_connections collects.
C16_no_listening_returned ==
    /\ enum.filter_listening =>
           \A i \in DOMAIN enum.connections :
               upper(enum.connections[i].state) \notin {"LISTEN", "LISTENING"}
    /\ cycle.filter_listening =>
           \A i \in DOMAIN cycle.connections :
               upper(cycle.connections[i].state) \notin {"LISTEN", "LISTENING"}

\* the tool printed a listening socket and another connection, and the call,
\* asked to leave listening sockets out, returned a record
C16_witness ==
    /\ enum.filter_listening
    /\ enum.protocol = "tcp"
    /\ \E i \in DOMAIN enum.stdout : str_in("LISTEN", enum.stdout[i])
    /\ enum.connections # <<>>

\* the address of an endpoint is a loopback address: 127.0.0.0/8 or ::1
loopback(endpoint) ==
    \/ startswith(without_port(endpoint), "127.")
    \/ without_port(endpoint) = "::1"

\* C17 as the specification has it: no returned record is a UDP record with
\* a wildcard or unspecified remote endpoint, and no returned record has a
\* loopback local address and a loopback remote address.  The code tests for
\* the text 127.0.0.1 only, so IPv6 loopback pairs are returned.
C17_no_noise_returned ==
    \A i \in DOMAIN enum.connections :
        LET conn == enum.connections[i] IN
        /\ ~(/\ upper(conn.protocol) = "UDP"
             /\ without_port(conn.foreign_address) \in {"*", "0.0.0.0", "::", ""})
        /\ ~(loopback(conn.local_address) /\ loopback(conn.foreign_address))

\* the columns of a line of the Unix netstat
columns(line) ==
    py_split(strip(line))

\* C18 as the specification has it: when the Unix netstat parser reads a
\* line that is not a header, starts with the requested protocol in any
\* letter case and has six columns or more, the call returns a record with
\* local = column 4, remote = column 5 and state = column 6, unless the
\* listening filter or the noise filter drops it.  The code skips every line
\* that starts with tcp or udp in small letters.
C18_netstat_line_is_data ==
    (/\ nettools # None
     /\ nettools.os_type # "windows"
     /\ enum.protocol = "tcp"
     /\ Len(enum.invoked) = 1
     /\ enum.invoked[1].cmd[1] = "netstat"
     /\ enum.invoked[1].outcome = "ok") =>
        \A n \in DOMAIN enum.stdout :
            LET parts == columns(enum.stdout[n])
                conn == NetworkConnection(upper(parts[1]), parts[4], parts[5],
                                          parts[6], "")
            IN  (/\ Len(parts) >= 6
                 /\ parts[1] \notin {"Active", "Proto"}
                 /\ lower(parts[1]) = enum.protocol
                 /\ ~(enum.filter_listening /\ is_listening(conn))
                 /\ ~is_uninteresting(conn)) =>
                    \E i \in DOMAIN enum.connections : enum.connections[i] = conn

detects_anew ==
    /\ detector # None
    /\ ~truthy(detector.detected_country)
    /\ detect'.op = "detect_country"
    /\ detect'.n = detect.n + 1

\* C22: when a detect_country call that detects gets no answer from any
\* service it asks (or can ask none), it returns the default country the
\* detector was built with, the method is "default", and the monitor that
\* made the call in initialize has this country as its local_country.
C22_falls_back_to_default ==
    [][(/\ detects_anew
        /\ \A i \in DOMAIN detect'.queries : detect'.queries[i].answer = "") =>
           /\ detect'.returned = detector.default_country
           /\ detect'.lookups = <<>>
           /\ detector'.detected_country = Str(detector.default_country)
           /\ detector'.detection_method = Str("default")
           /\ (monitor'.at # monitor.at =>
                   monitor'.local_country = Str(detector.default_country))]_vars

\* initialize has asked all seven services, none has answered, and the
\* monitor's country is the default country
C22_witness ==
    /\ detect.op = "detect_country"
    /\ Len(detect.queries) = Len(ip_services) + Len(country_services)
    /\ \A i \in DOMAIN detect.queries : detect.queries[i].answer = ""
    /\ detect.returned = "United States"
    /\ detector.detection_method = Str("default")
    /\ monitor.at = "started"
    /\ monitor.local_country = Str("United States")

\* the values the specification has detection reject
NonSpecific == {"Unknown", "Private", "Local Network", "Europe", "Asia"}

\* the last detect_country call asked a direct country service
asked_country_service ==
    \E i \in DOMAIN detect.queries, j \in DOMAIN country_services :
        detect.queries[i].url = country_services[j]

\* C23: a country whose method is "auto-detected" is not empty and not one
\* of the non-specific values; the direct country services are asked only by
\* a call whose resolver lookup gave no acceptable country or that had no
\* address to look up; and a country taken from them is the last answer
\* received and is longer than two letters.
C23_auto_detected_is_specific ==
    /\ (detector # None /\ detector.detection_method = Str("auto-detected")) =>
           /\ truthy(detector.detected_country)
           /\ detector.detected_country.str \notin NonSpecific
    /\ (detect.op = "detect_country" /\ asked_country_service) =>
           /\ \/ detect.lookups = <<>>
              \/ /\ detect.lookups = <<call.ip>>
                 /\ call.raised = ""
                 /\ call.result[2] \in NonSpecific \cup {""}
           /\ detector.detection_method = Str("auto-detected") =>
                  /\ Len(detect.returned) > 2
                  /\ detect.returned = detect.queries[Len(detect.queries)].answer

\* the resolver found the public address to be a private one, the first
\* country service answered with a code, and the second one's Germany was
\* taken
C23_witness ==
    /\ detect.op = "detect_country"
    /\ detect.lookups = <<"192.168.1.1">>
    /\ call.result[2] = "Private"
    /\ detect.queries[Len(detect.queries) - 1].answer = "DE"
    /\ detect.returned = "Germany"
    /\ detector.detection_method = Str("auto-detected")

\* C24: is_foreign is true exactly when the record's country is not empty,
\* is none of Unknown, Local Network and Private, and is not the very text
\* of the home country.
C24_is_foreign ==
    probe.fn = "NetworkConnection.is_foreign" =>
        LET country == probe.input[1]
            home == probe.input[2]
        IN  /\ probe.output =
                   (/\ country # ""
                    /\ country \notin Sentinels
                    /\ country # home)
            /\ country = "" => ~probe.output
            /\ (country = "Germany" /\ home = "United States") => probe.output

\* a record of Germany was classified foreign for the home country United
\* States
C24_witness ==
    /\ probe.fn = "NetworkConnection.is_foreign"
    /\ probe.input = <<"Germany", "United States">>
    /\ probe.output

\* C25: every round of the loop of get_netstat_connections annotates the
\* next record and no other: with what the resolver returned for its remote
\* address, or with city "" and "Lookup Error" as country and organization
\* when the lookup raised; one record raising does not keep the later ones
\* from being resolved, and the records returned are the enumerated ones, as
\* many and in their order.
C25_lookup_error_is_contained ==
    [][/\ cycle'.i = cycle.i + 1 =>
           LET i == cycle'.i
               conn == cycle'.connections[i]
           IN  /\ call'.n = call.n + 1
               /\ call'.ip = foreign_ip(cycle.connections[i].foreign_address)
               /\ unannotated(conn) = cycle.connections[i]
               /\ <<conn.city, conn.country, conn.asn>> =
                      IF call'.raised = "" THEN call'.result
                      ELSE <<"", "Lookup Error", "Lookup Error">>
               /\ \A j \in DOMAIN cycle.connections :
                      j # i => cycle'.connections[j] = cycle.connections[j]
       /\ cycle'.at \in {"geo", "returned"} =>
           /\ Len(cycle'.connections)
                  = Len(cycle'.tcp.connections) + Len(cycle'.udp.connections)
           /\ \A j \in DOMAIN cycle'.connections :
                  unannotated(cycle'.connections[j])
                      = (cycle'.tcp.connections \o cycle'.udp.connections)[j]
       /\ cycle'.at = "returned" => cycle'.i = Len(cycle'.connections)]_vars

\* three records were returned: the lookup of the first one raised, the
\* ones after it hold what the resolver returned for them
C25_witness ==
    /\ cycle.at = "returned"
    /\ Len(cycle.connections) = 3
    /\ cycle.connections[1].country = "Lookup Error"
    /\ cycle.connections[1].asn = "Lookup Error"
    /\ cycle.connections[2].country = "Unknown"
    /\ call.raised = ""
    /\ cycle.connections[3].country = call.result[2]

\* C26: a flush writes the memory of the process that flushes and nothing
\* else, so what another process has put into the file since this one
\* loaded it is gone after the flush.
C26_last_writer_wins ==
    [][(pc = "running" /\ pc' = "exited" /\ peer' = peer /\ closed'
            /\ op'.io = "ok") =>
           cache_file' = [kind |-> "pickle", cache |-> persistent_cache,
                          saved_at |-> clock]]_vars

\* both processes have resolved an address of their own, flushed their cache
\* and left, and the entry that one of them flushed is not in the file the
\* other one wrote after it
C26_witness ==
    /\ peer # None
    /\ pc = "exited" /\ closed /\ op.name = "exit" /\ op.io = "ok"
    /\ peer.pc = "exited" /\ peer.closed /\ peer.op.name = "exit"
    /\ peer.op.io = "ok"
    /\ cache_file.kind = "pickle"
    /\ cache_file.cache = persistent_cache
    /\ DOMAIN persistent_cache = {"8.8.8.8"}
    /\ DOMAIN peer.persistent_cache = {"93.184.216.34"}
    /\ \A ip \in DOMAIN peer.persistent_cache : ip \notin DOMAIN cache_file.cache

\* C27: a lookup answered from a cache leaves both caches, the rate-limit
\* map and the cache file as they were; an entry is stamped with the time of
\* the call that wrote it, as long as it is in memory no lookup changes its
\* stamp, and a run that loads it from the file has it with the stamp it
\* was saved with.
C27_hit_mutates_nothing ==
    [][/\ (pc = "start" /\ pc' = "running") =>
           \A ip \in DOMAIN persistent_cache' :
               persistent_cache'[ip] = cache_file.cache[ip]
       /\ (call'.n = call.n + 1 /\ peer' = peer) =>
           /\ call'.hit # "" =>
                  /\ persistent_cache' = persistent_cache
                  /\ online_cache' = online_cache
                  /\ last_online_lookup' = last_online_lookup
                  /\ cache_file' = cache_file
                  /\ ~call'.wrote
           /\ call'.wrote =>
                  /\ call'.ip \notin DOMAIN persistent_cache
                  /\ persistent_cache'[call'.ip].timestamp = clock
           /\ \A ip \in DOMAIN persistent_cache :
                  /\ ip \in DOMAIN persistent_cache'
                  /\ persistent_cache'[ip] = persistent_cache[ip]]_vars

\* a later run answered from an entry that an earlier run had written at an
\* earlier time: the entry still has that time
C27_witness ==
    /\ runs = 2
    /\ call.hit = "persistent"
    /\ persistent_cache[call.ip].timestamp = 0
    /\ clock > 0

\* C30: a load that fails leaves a resolver that runs, with an empty cache;
\* a save that fails during a lookup leaves the call returning its result
\* and both caches holding the new entry next to the old ones; and the
\* lookups made after either failure raise nothing, answer from memory what
\* is in memory and take everything else through the tiers.
C30_cache_io_failure_is_contained ==
    [][/\ (pc = "start" /\ pc' = "running"
               /\ (op'.io # "ok" \/ cache_file.kind = "corrupt")) =>
           persistent_cache' = [ip \in {} |-> <<>>]
       /\ (call'.n = call.n + 1 /\ call'.wrote /\ op'.io # "ok") =>
           /\ call'.raised = ""
           /\ persistent_cache' =
                  dict_put(persistent_cache, call'.ip,
                           [city |-> call'.result[1], country |-> call'.result[2],
                            asn |-> call'.result[3], timestamp |-> clock])
           /\ online_cache' = dict_put(online_cache, call'.ip, call'.result)
       /\ (call'.n = call.n + 1 /\ op.name \in {"load", "lookup"}
               /\ op.io # "ok") =>
           /\ call'.raised = ""
           /\ call'.ip \in DOMAIN persistent_cache =>
                  /\ call'.hit = "persistent"
                  /\ call'.result = <<persistent_cache[call'.ip].city,
                                      persistent_cache[call'.ip].country,
                                      persistent_cache[call'.ip].asn>>
           /\ call'.ip \notin DOMAIN persistent_cache =>
                  /\ call'.hit = ""
                  /\ call'.trace # <<>>
                  /\ call'.trace[1].tier = "simple"]_vars

\* the tenth entry was written and its flush failed; the lookup after it
\* resolved another address through the tiers and wrote the eleventh
C30_witness ==
    /\ call.n = 2
    /\ call.wrote
    /\ Cardinality(DOMAIN persistent_cache) = 11
    /\ cache_file.kind = "corrupt"

\* C28: an exception raised in an iteration of the loop, other than the
\* interrupt, does not end the loop: monitor_continuous comes to its end
\* only after an interrupt signal.
C28_exception_does_not_end_loop ==
    monitor.at = "failed" => monitor.signals > 0

\* C29: once an interrupt signal has been delivered to the loop, no further
\* iteration starts.
C29_interrupt_ends_the_run ==
    [][monitor.signals > 0 => monitor'.cycles = monitor.cycles]_vars

\* the entries in memory that the file does not hold as they are
unflushed(pcache, file) ==
    {ip \in DOMAIN pcache :
        \/ file.kind # "pickle"
        \/ ip \notin DOMAIN file.cache
        \/ file.cache[ip] # pcache[ip]}

\* C31: a lookup that resolves an address through a tier has put the entry
\* into both caches when it returns; the write saves the file when it makes
\* the number of entries a multiple of ten and leaves the file alone
\* otherwise; a resolver starts with nothing to flush, and as long as no
\* save fails the entries not yet in the file are at most as many as the
\* entries beyond the last multiple of ten, so at most nine.
C31_flushes_are_batched ==
    [][/\ (call'.n = call.n + 1 /\ call'.hit = "" /\ call'.raised = ""
               /\ call'.result[2] \notin {"", "Unknown", "Private"}) =>
           call'.wrote
       /\ (call'.n = call.n + 1 /\ call'.wrote) =>
           /\ call'.ip \in DOMAIN persistent_cache'
           /\ call'.ip \in DOMAIN online_cache'
           /\ online_cache'[call'.ip] = call'.result
           /\ <<persistent_cache'[call'.ip].city, persistent_cache'[call'.ip].country,
                persistent_cache'[call'.ip].asn>> = call'.result
           /\ IF Cardinality(DOMAIN persistent_cache') % 10 = 0
              THEN op'.io = "ok" =>
                       cache_file' = [kind |-> "pickle", cache |-> persistent_cache',
                                      saved_at |-> clock]
              ELSE cache_file' = cache_file
       /\ (pc = "start" /\ pc' = "running") =>
           unflushed(persistent_cache', cache_file') = {}
       /\ (call'.n = call.n + 1 /\ op'.io = "ok"
               /\ Cardinality(unflushed(persistent_cache, cache_file))
                      <= Cardinality(DOMAIN persistent_cache) % 10) =>
           /\ Cardinality(unflushed(persistent_cache', cache_file'))
                  <= Cardinality(DOMAIN persistent_cache') % 10
           /\ Cardinality(unflushed(persistent_cache', cache_file')) <= 9]_vars

\* the tenth entry was written and flushed, the eleventh was written after
\* it and is in memory only
C31_witness ==
    /\ call.n = 2
    /\ call.wrote
    /\ Cardinality(DOMAIN persistent_cache) = 11
    /\ cache_file.kind = "pickle"
    /\ Cardinality(DOMAIN cache_file.cache) = 10
    /\ unflushed(persistent_cache, cache_file) = {call.ip}

\* C32 as the specification has it: when get_connections is asked for TCP
\* with the listening sockets included and a tool delivers its output, every
\* line of a socket in state LISTEN or LISTENING whose local address is no
\* loopback address gives a record in the result, whichever tool printed
\* it.  The ss parser skips every line that starts with LISTEN, and the
\* noise filter drops every record whose remote endpoint is 0.0.0.0:0.
C32_listening_is_returned_when_asked ==
    (/\ nettools # None
     /\ enum.protocol = "tcp"
     /\ ~enum.filter_listening
     /\ delivered(enum)) =>
        LET tool == enum.invoked[Len(enum.invoked)].cmd[1] IN
        \A n \in DOMAIN enum.stdout :
            LET parts == columns(enum.stdout[n])
                sockets ==
                    IF nettools.os_type = "windows"
                    THEN IF Len(parts) >= 5 /\ parts[1] = "TCP"
                         THEN {[local |-> parts[2], state |-> parts[4]]} ELSE {}
                    ELSE IF tool = "netstat"
                    THEN IF Len(parts) >= 6 /\ lower(parts[1]) = "tcp"
                         THEN {[local |-> parts[4], state |-> parts[6]]} ELSE {}
                    ELSE IF Len(parts) >= 5 /\ parts[1] # "State"
                         THEN {[local |-> parts[4], state |-> parts[1]]} ELSE {}
            IN  \A socket \in sockets :
                    (/\ upper(socket.state) \in {"LISTEN", "LISTENING"}
                     /\ ~loopback(socket.local)) =>
                        \E i \in DOMAIN enum.connections :
                            /\ enum.connections[i].local_address = socket.local
                            /\ enum.connections[i].state = socket.state

\* C33 as the specification has it: the summary of an iteration counts as
\* foreign no record whose country is "Unknown" or "Lookup Error".  The code
\* has "Lookup Error" outside the list of is_foreign, so a record whose
\* lookup raised is foreign for every home country.
C33_degraded_is_not_foreign ==
    monitor.foreign <=
        Cardinality({i \in DOMAIN cycle.connections :
                        cycle.connections[i].country \notin {"Unknown", "Lookup Error"}})

\* C34: a call that the rate limiter holds back sends no request and leaves
\* the time stamps of the limiter as they are; and a call for an address
\* that a request was sent for earlier in the run, that is in no cache
\* (the answer was Unknown) and whose last request is at least the delay
\* old, is not held back: it sends a request and stamps the address anew.
C34_retry_after_the_delay ==
    [][call'.n = call.n + 1 =>
           /\ call'.limited =>
                  /\ call'.requests = <<>>
                  /\ call'.result = <<"", "Unknown", "">>
                  /\ last_online_lookup' = last_online_lookup
           /\ (/\ call'.ip \in DOMAIN last_request
               /\ call'.ip \notin DOMAIN persistent_cache
               /\ call'.ip \notin DOMAIN online_cache
               /\ clock - last_request[call'.ip] >= online_lookup_delay) =>
                  /\ ~call'.limited
                  /\ call'.requests # <<>>
                  /\ call'.requests[1] = "ip-api.com"
                  /\ last_online_lookup'[call'.ip] = clock]_vars

\* the third call of the run sent a request at second 1: the first two
\* calls were made for the same address at second 0, one sent a request and
\* was answered Unknown, the other was held back
C34_witness ==
    /\ call.n = 3
    /\ clock = 1
    /\ call.requests # <<>>
    /\ DOMAIN last_request = {call.ip}
    /\ last_request[call.ip] = 1
    /\ call.result = <<"", "Unknown", "">>
    /\ DOMAIN persistent_cache = {}

\* C35: _online_lookup sends its first request to ip-api.com and a second
\* one, to ipinfo.io, exactly when the first raised, had a status other than
\* 200 or an answer whose status is not "success"; when the second raised or
\* had a status other than 200 as well, the result is ("", "Unknown", "");
\* and no lookup sends more than these two requests, one to each service.
C35_second_service_is_a_fallback ==
    /\ probe.fn = "GeoIPLookup._online_lookup" =>
           LET api == probe.input[1]
               info == probe.input[2]
               first_ok == /\ ~api.raised
                           /\ api.status_code = 200
                           /\ "status" \in DOMAIN api.data
                           /\ api.data["status"] = "success"
           IN  /\ probe.output.requests =
                      IF first_ok THEN <<"ip-api.com">>
                      ELSE <<"ip-api.com", "ipinfo.io">>
               /\ (~first_ok /\ (info.raised \/ info.status_code # 200)) =>
                      probe.output.result = <<"", "Unknown", "">>
    /\ call.requests \in {<<>>, <<"ip-api.com">>, <<"ip-api.com", "ipinfo.io">>}

\* the first service answered with status 429 and the request to the second
\* raised: both were asked and the result is Unknown
C35_witness ==
    /\ probe.fn = "GeoIPLookup._online_lookup"
    /\ ~probe.input[1].raised
    /\ probe.input[1].status_code = 429
    /\ probe.input[2].raised
    /\ probe.output.requests = <<"ip-api.com", "ipinfo.io">>
    /\ probe.output.result = <<"", "Unknown", "">>

\* C36: every address in online_cache is a key of persistent_cache, and the
\* entry there has the city, country and organization of the runtime entry;
\* no lookup is answered by the test of the runtime cache.
C36_runtime_cache_is_covered ==
    /\ \A ip \in DOMAIN online_cache :
           /\ ip \in DOMAIN persistent_cache
           /\ online_cache[ip] = <<persistent_cache[ip].city,
                                   persistent_cache[ip].country,
                                   persistent_cache[ip].asn>>
    /\ call.hit # "runtime"

\* a lookup of an address that the run had resolved before, and that is in
\* both caches, was answered by the test of the persistent cache
C36_witness ==
    /\ call.hit = "persistent"
    /\ call.ip \in DOMAIN online_cache
    /\ call.ip \in DOMAIN written

\* C37 as the specification has it: no key of persistent_cache, of
\* online_cache or of last_online_lookup is an RFC1918, loopback, fe80: or
\* fc00: address, the unspecified address of either family, or the empty
\* text.  The code knows the unspecified address as 0.0.0.0 only, so "::"
\* goes through the tiers.
C37_no_entry_for_a_local_address ==
    \A ip \in DOMAIN persistent_cache \cup DOMAIN online_cache
                \cup DOMAIN last_online_lookup :
        /\ ~claimed_local(ip)
        /\ ip \notin {"", "0.0.0.0", "::"}

\* C38: in a run started with online lookup disabled no call sends a
\* request or is held back by the rate limiter, the online tier is never
\* consulted, last_online_lookup stays empty, and a call that went through
\* the local tiers without an accepted result returns ("", "Unknown", "").
C38_offline_sends_nothing ==
    (pc # "start" /\ ~installation.online) =>
        /\ ~use_online
        /\ call.requests = <<>>
        /\ ~call.limited
        /\ \A i \in DOMAIN call.trace : call.trace[i].tier # "online"
        /\ DOMAIN last_online_lookup = {}
        /\ DOMAIN last_request = {}
        /\ (call.n > 0 /\ call.trace # <<>> /\ call.raised = "" /\ ~call.wrote) =>
               call.result = <<"", "Unknown", "">>

\* two calls in a run without online lookup, for addresses that the MaxMind
\* databases and the static table do not know: nothing was resolved and the
\* second call returned Unknown as well
C38_witness ==
    /\ ~installation.online
    /\ installation.requests
    /\ addresses = PublicAddresses
    /\ call.n = 2
    /\ call.ip = "93.184.216.34"
    /\ Len(call.trace) = 2
    /\ DOMAIN written = {}
    /\ call.result = <<"", "Unknown", "">>

\* C39: when main has settled the home country, by --country or by
\* NetworkMonitor.initialize, local_country is a non-empty text, it is the
\* detector's detected_country, and the detection method is one of
\* auto-detected, manual and default.
C39_home_country_is_settled ==
    [][(monitor.at = "main" /\ monitor'.at = "started") =>
          /\ truthy(monitor'.local_country)
          /\ monitor'.local_country = detector'.detected_country
          /\ detector'.detection_method \in
                 {Str("auto-detected"), Str("manual"), Str("default")}]_vars

====
